---- MODULE Spec2Model ----
(***************************************************************************)
(* gameRoom actor: server-authoritative 1v1 marble soccer.                 *)
(*                                                                         *)
(* One match: the state of createState, the per-connection state of        *)
(* createConnState, the handlers onConnect / onDisconnect / getJoinState / *)
(* sendInput, and the body of the tick loop of run (phaseTick, physicsTick,*)
(* wallBounce, checkGoal, broadcastSnapshot).                               *)
(*                                                                         *)
(* Units.  Times are milliseconds, as in the source.  Lengths are tenths   *)
(* of a field unit (FIELD_HALF_LENGTH = 10 is written 100), velocities are *)
(* thousandths of a field unit per nominal tick, restitutions are tenths.  *)
(* The vertical axis is constant in every reachable state of the source    *)
(* (gravity pulls an entity onto GROUND_Y in every pass), so a position    *)
(* keeps y = GROUND_Y and a velocity keeps y = 0.                          *)
(*                                                                         *)
(* Steps 1-4 of physicsTick (force, collisions, drag, integration) are     *)
(* IEEE-double computations.  In the match specifications their outcome is *)
(* a choice among the sampled motions below; steps 5 (wallBounce) and 6    *)
(* (checkGoal) are then computed exactly on the chosen outcome.            *)
(***************************************************************************)
EXTENDS Integers, Sequences, FiniteSets, TLC

(***************************************************************************)
(* Program constants (src/src/lib/game/types.ts)                           *)
(***************************************************************************)
FIELD_HALF_LENGTH == 100
FIELD_HALF_WIDTH == 60
WALL_RESTITUTION_BALL == 8
WALL_RESTITUTION_PLAYER == 5
GOAL_HALF_WIDTH == 20
GOAL_DEPTH == 20
BALL_RADIUS == 3
BALL_MAX_SPEED == 650
MARBLE_RADIUS == 5
GROUND_Y == 5
DASH_FORCE_MULT == 15
DASH_DURATION == 120
DASH_COOLDOWN == 3000
GOALS_TO_WIN == 5
MATCH_TIME_LIMIT == 180000
GOLDEN_GOAL_HALF_WIDTH == 25
KICKOFF_FREEZE == 1500
GOAL_CELEBRATION == 1400
PRE_GAME_COUNTDOWN == 3000
MAX_PLAYERS == 2
SERVER_TICK_INTERVAL == 16
SNAPSHOT_BROADCAST_INTERVAL == 50
\* run: const EMPTY_TIMEOUT = 10_000
EMPTY_TIMEOUT == 10000
\* run: Math.min(now - lastTickTime, 50)
MAX_DT_MS == 50
\* sendInput: if (now - connState.lastInputAt < 30) return
MIN_INPUT_INTERVAL == 30
\* kickoffPositions: |z| of both kickoff spots
KICKOFF_Z == 70
\* sendInput: FIELD_HALF_WIDTH + GOAL_DEPTH + 5
INPUT_MARGIN == 50
\* physicsTick: forceMult = isDashing ? DASH_FORCE_MULT : 1.0
FORCE_UNIT == 10

\* masses in tenths: a player weighs 1.0, the ball BALL_MASS
BALL_MASS == 3
PLAYER_MASS == 10
\* PUSH_FORCE in tenths, and the share of it given as base push, in tenths
PUSH_FORCE == 2
BASE_PUSH_SHARE == 3
\* thousandths of a unit in a tenth: contacts are resolved in thousandths
FINE == 100

(***************************************************************************)
(* Bounds of the model                                                     *)
(***************************************************************************)
\* Date.now() at construction of the match
T0 == 1000000
\* number of connection attempts made during one match
NumConns == 3
\* number of times the wall clock is observed to have advanced
MaxAdvances == 4
\* number of sendInput calls accepted during one match
MaxInputs == 2
\* number of the snapshot broadcast last in a match late in its clock
LateTicks == 4000

Conns == 1..NumConns
\* the id createConnState gives the connection's player
PlayerId(c) == c
\* null (no player id)
Null == 0

\* wall-clock time that passes between two observations of Date.now()
Steps == {100, 2900}

Phases == {"waiting", "countdown", "playing", "goalScored", "goldenGoal", "finished"}

Abs(n) == IF n < 0 THEN -n ELSE n
Min(a, b) == IF a < b THEN a ELSE b
Max(a, b) == IF a > b THEN a ELSE b

(***************************************************************************)
(* Helpers                                                                 *)
(***************************************************************************)
vec3Zero == [x |-> 0, y |-> 0, z |-> 0]

createBall ==
  [position |-> [x |-> 0, y |-> GROUND_Y, z |-> 0],
   velocity |-> vec3Zero,
   lastTouchedBy |-> Null]

kickoffPositions ==
  [p1 |-> [x |-> 0, y |-> GROUND_Y, z |-> -KICKOFF_Z],
   p2 |-> [x |-> 0, y |-> GROUND_Y, z |-> KICKOFF_Z]]

\* variant: a kickoff that leaves the players where they are
KickoffKeepsPlayers(ps) == ps

\* the players part of resetForKickoff
KickoffPlayers(ps) ==
  [i \in DOMAIN ps |->
     [ps[i] EXCEPT !.position = IF ps[i].team = 1 THEN kickoffPositions.p1
                                                  ELSE kickoffPositions.p2,
                   !.velocity = vec3Zero]]

\* the ConnState createConnState returns
NewConnState ==
  [input |-> [tx |-> 0, tz |-> 0, active |-> FALSE, dash |-> FALSE],
   dashCooldownUntil |-> 0,
   dashStartedAt |-> 0,
   lastInputAt |-> 0]

(***************************************************************************)
(* Broadcast events                                                        *)
(***************************************************************************)
EvPlayerJoined(id, p) == [type |-> "playerJoined", playerId |-> id, player |-> p]
EvPlayerLeft(id) == [type |-> "playerLeft", playerId |-> id]
EvPhaseChanged(ph, tr) == [type |-> "phaseChanged", phase |-> ph, timeRemaining |-> tr]
EvGoalScored(id, team, sc) ==
  [type |-> "goalScored", scorerId |-> id, teamScored |-> team, scores |-> sc]
EvGameOver(id, team, sc) ==
  [type |-> "gameOver", winnerId |-> id, winnerTeam |-> team, scores |-> sc]
EvSnapshot(ps, b, tick, tr) ==
  [type |-> "physicsSnapshot", players |-> ps, ball |-> b, tick |-> tick,
   timeRemaining |-> tr]

VARIABLES
  now,             \* Date.now()
  advances,        \* how often the clock has advanced (bounded by MaxAdvances)
  phase,           \* c.state.phase
  scores,          \* c.state.scores
  timeRemaining,   \* c.state.timeRemaining
  phaseStartedAt,  \* c.state.phaseStartedAt
  players,         \* c.state.players: the PlayerStates, in insertion order
  ball,            \* c.state.ball
  conn,            \* per connection: its stage and its ConnState
  inputs,          \* number of sendInput calls accepted (bounded by MaxInputs)
  runState,        \* position of run: "first", "sleeping", "exited"
  lastTickTime,    \* run: lastTickTime
  emptyAt,         \* run: emptyAt (0 is null)
  lastSnapshot,    \* run: lastSnapshot
  tickCounter,     \* run: tickCounter
  events,          \* what the last handler or tick broadcast, in order
  forceMult,       \* per connection: forceMult of the last physics pass, in tenths (0: none)
  result,          \* what the last handler call returned or raised
  lobby,           \* the lobby actor as notifyLobby finds it: "up", "down", "slow"
  pair,            \* two bodies in contact, in thousandths (the collision steps)
  directory        \* the lobby's entry for this room and the calls on their way to it

vars == <<now, advances, phase, scores, timeRemaining, phaseStartedAt, players,
          ball, conn, inputs, runState, lastTickTime, emptyAt, lastSnapshot,
          tickCounter, events, forceMult, result, lobby, pair, directory>>

state == <<phase, scores, timeRemaining, phaseStartedAt, players, ball>>
loop == <<runState, lastTickTime, emptyAt, lastSnapshot, tickCounter>>
env == <<lobby, pair, directory>>

\* c.conns: the connections the runtime holds (admitted, or closed by onConnect
\* and not yet disconnected)
LiveConns == {c \in Conns : conn[c].stage \in {"open", "closed"}}

\* Object.keys(c.state.players).length
PlayerCount == Len(players)

\* no physics pass has computed a force multiplier
NoForce == [c \in Conns |-> 0]

\* c.state.players = {}
NoPlayers == <<>>

\* c.state.players[id] is set
HasPlayer(ps, id) == \E i \in DOMAIN ps : ps[i].id = id

\* delete c.state.players[id]
RemovePlayer(ps, id) == SelectSeq(ps, LAMBDA p : p.id # id)

\* the ids of the players
PlayerIds(ps) == {ps[i].id : i \in DOMAIN ps}

(***************************************************************************)
(* createState and the prologue of run                                     *)
(***************************************************************************)
\* a handler that returns nothing
Void == [kind |-> "void"]

\* an error raised out of a handler
Raised(message) == [kind |-> "error", message |-> message]

\* no bodies in contact
NoPair == [kind |-> "none"]
NoDirectory == [kind |-> "none"]

Init ==
  /\ now = T0
  /\ advances = 0
  /\ phase = "waiting"
  /\ scores = <<0, 0>>
  /\ timeRemaining = MATCH_TIME_LIMIT
  /\ phaseStartedAt = T0
  /\ players = NoPlayers
  /\ ball = createBall
  /\ conn = [c \in Conns |-> [stage |-> "none", cs |-> NewConnState]]
  /\ inputs = 0
  /\ runState = "first"
  /\ lastTickTime = T0
  /\ emptyAt = 0
  /\ lastSnapshot = 0
  /\ tickCounter = 0
  /\ events = <<>>
  /\ forceMult = NoForce
  /\ result = Void
  /\ lobby = "up"
  /\ pair = NoPair
  /\ directory = NoDirectory

(***************************************************************************)
(* wallBounce: field boundary and goal pocket geometry.  absX, absZ and    *)
(* inGoalPocket are read once, before any correction, as in the source.    *)
(***************************************************************************)
\* v * -restitution, to the thousandth (towards zero)
Reflect(v, restitution) ==
  IF v >= 0 THEN -((v * restitution) \div 10) ELSE ((-v) * restitution) \div 10

\* variant: the back wall met by the centre, not by the surface
BackWallAtCentre(radius) == FIELD_HALF_LENGTH + GOAL_DEPTH

\* backWallZ
BackWallZ(radius) == FIELD_HALF_LENGTH + GOAL_DEPTH - radius

\* variant: an entity put back just short of where the end wall lets go
EndWallRestShort(radius) == FIELD_HALF_LENGTH - radius + 1

\* where an end wall puts an entity back
EndWallRest(radius) == FIELD_HALF_LENGTH - radius

\* variant: the end wall solid only where the centre is beside the mouth
BesideMouthByCentre(absX, goalHW, radius) == absX >= goalHW

\* the end wall is solid where the entity would overlap a post
BesideMouth(absX, goalHW, radius) == absX >= goalHW - radius

wallBounce(entity, radius, restitution, goalHW) ==
  LET pos0 == entity.position
      vel0 == entity.velocity
      absZ == Abs(pos0.z)
      absX == Abs(pos0.x)
      inGoalPocket == absZ > FIELD_HALF_LENGTH /\ absX < goalHW
      \* side walls (X axis)
      xLimit == (IF inGoalPocket THEN goalHW ELSE FIELD_HALF_WIDTH) - radius
      x1 == IF pos0.x > xLimit THEN xLimit
            ELSE IF pos0.x < -xLimit THEN -xLimit ELSE pos0.x
      vx1 == IF pos0.x > xLimit \/ pos0.x < -xLimit
             THEN Reflect(vel0.x, restitution) ELSE vel0.x
      \* goal-post inner edges
      atPost == /\ absZ > FIELD_HALF_LENGTH - radius
                /\ absZ <= FIELD_HALF_LENGTH + GOAL_DEPTH
                /\ ~inGoalPocket
                /\ absX < goalHW + radius
                /\ absX >= goalHW - radius
      x2 == IF atPost THEN (IF x1 > 0 THEN goalHW - radius ELSE -(goalHW - radius))
            ELSE x1
      vx2 == IF atPost THEN Reflect(vx1, restitution) ELSE vx1
      \* back walls of the goal pockets
      backWallZ == BackWallZ(radius)
      hitBackP == pos0.z > backWallZ /\ absX < goalHW
      z3a == IF hitBackP THEN backWallZ ELSE pos0.z
      vz3a == IF hitBackP THEN Reflect(vel0.z, restitution) ELSE vel0.z
      hitBackN == z3a < -backWallZ /\ absX < goalHW
      z3 == IF hitBackN THEN -backWallZ ELSE z3a
      vz3 == IF hitBackN THEN Reflect(vz3a, restitution) ELSE vz3a
      \* end walls (Z axis), solid except the goal opening
      hitEndP == z3 > FIELD_HALF_LENGTH - radius /\ BesideMouth(absX, goalHW, radius)
      z4a == IF hitEndP THEN EndWallRest(radius) ELSE z3
      vz4a == IF hitEndP THEN Reflect(vz3, restitution) ELSE vz3
      hitEndN == z4a < -(FIELD_HALF_LENGTH - radius) /\ BesideMouth(absX, goalHW, radius)
      z4 == IF hitEndN THEN -EndWallRest(radius) ELSE z4a
      vz4 == IF hitEndN THEN Reflect(vz4a, restitution) ELSE vz4a
  IN [entity EXCEPT !.position = [x |-> x2, y |-> pos0.y, z |-> z4],
                    !.velocity = [x |-> vx2, y |-> vel0.y, z |-> vz4]]

(***************************************************************************)
(* checkGoal: the team a goal is credited to, 0 when there is none         *)
(***************************************************************************)
\* variant: the goal credited to the team that defends the end entered
GoalTeamDefending(b, goalHW) ==
  IF Abs(b.position.x) >= goalHW THEN 0
  ELSE IF b.position.z > FIELD_HALF_LENGTH + BALL_RADIUS THEN 2
  ELSE IF b.position.z < -(FIELD_HALF_LENGTH + BALL_RADIUS) THEN 1
  ELSE 0

GoalTeam(b, goalHW) ==
  IF Abs(b.position.x) >= goalHW THEN 0
  ELSE IF b.position.z > FIELD_HALF_LENGTH + BALL_RADIUS THEN 1
  ELSE IF b.position.z < -(FIELD_HALF_LENGTH + BALL_RADIUS) THEN 2
  ELSE 0

\* variant: a goal that counts double
AddGoalTwice(sc, team) == [sc EXCEPT ![team] = @ + 2]

\* state.scores[idx] += 1
AddGoal(sc, team) == [sc EXCEPT ![team] = @ + 1]

(***************************************************************************)
(* Connection lifecycle                                                    *)
(***************************************************************************)
(***************************************************************************)
(* The lobby actor's entry for this room, and the calls notifyLobby and    *)
(* ensureLobbyRegistration make to it                                      *)
(***************************************************************************)
RegisterRoom == [op |-> "registerRoom"]
RemoveRoom == [op |-> "removeRoom"]
UpdateRoom(playerCount, status) ==
  [op |-> "updateRoom", playerCount |-> playerCount, status |-> status]

\* no RoomSummary with this room's id
Unlisted == [listed |-> FALSE, playerCount |-> 0, status |-> "waiting"]

\* the RoomSummary createRoom, registerRoom and findOrCreateRoom push
NewRoom == [listed |-> TRUE, playerCount |-> 0, status |-> "waiting"]

\* (the lobby has fewer than MAX_ROOMS entries)
registerRoom(room) == IF room.listed THEN room ELSE NewRoom

updateRoom(room, patch) ==
  IF ~room.listed THEN room
  ELSE [room EXCEPT
          !.playerCount = IF patch.playerCount >= 0 /\ patch.playerCount <= MAX_PLAYERS
                          THEN patch.playerCount ELSE @,
          !.status = IF patch.status \in {"waiting", "playing"} THEN patch.status ELSE @]

removeRoom(room) == Unlisted

\* the lobby runs one call
Served(room, call) ==
  CASE call.op = "registerRoom" -> registerRoom(room)
    [] call.op = "updateRoom" -> updateRoom(room, call)
    [] call.op = "removeRoom" -> removeRoom(room)

\* findOrCreateRoom would hand this room out
Joinable(room) ==
  room.listed /\ room.status = "waiting" /\ room.playerCount < MAX_PLAYERS

\* calls made and not awaited: they are on their way unless the lobby
\* cannot be reached
Sent(dir, l, calls) ==
  IF dir.kind = "none" \/ l = "down" THEN dir
  ELSE [dir EXCEPT !.flight = @ \o calls]

\* the calls of onConnect, for the player count after the join
ConnectCalls(playerCount) ==
  (IF playerCount = 1 THEN <<RegisterRoom>> ELSE <<>>)
    \o <<UpdateRoom(playerCount, IF playerCount >= 2 THEN "playing" ELSE "waiting")>>

\* the call of onDisconnect, for the players that remain
DisconnectCalls(remaining, ph) ==
  IF Len(remaining) < 2 /\ ph # "waiting" /\ ph # "finished" THEN <<RemoveRoom>>
  ELSE IF Len(remaining) = 0 THEN <<RemoveRoom>>
  ELSE <<UpdateRoom(Len(remaining), "waiting")>>

\* variant: notifyLobby without its try/catch
notifyLobbyUncaught(l) ==
  IF l = "down" THEN "rejected" ELSE IF l = "slow" THEN "pending" ELSE "resolved"

\* notifyLobby and ensureLobbyRegistration: the promise the call returns.
\* Whatever getActor or the lobby action throws is caught, and the caller
\* does not await it
notifyLobby(l) == "resolved"

\* what a handler that has dispatched lobby notifications raises
AfterNotify(l) ==
  IF notifyLobby(l) = "rejected" THEN Raised("unhandled rejection") ELSE Void

\* createConnState throws "Room is full" when the player map is at capacity
\* variant: full only beyond MAX_PLAYERS
RoomIsOverfull(ps) == Len(ps) > MAX_PLAYERS

\* createConnState refuses the connection
RoomIsFull(ps) == Len(ps) >= MAX_PLAYERS

CreateConnState(c) ==
  /\ conn[c].stage = "none"
  /\ \A d \in Conns : d < c => conn[d].stage # "none"
  /\ conn' = [conn EXCEPT ![c] =
                [stage |-> IF RoomIsFull(players) THEN "refused" ELSE "created",
                 cs |-> NewConnState]]
  /\ result' = IF RoomIsFull(players) THEN Raised("Room is full") ELSE Void
  /\ forceMult' = NoForce
  /\ events' = <<>>
  /\ UNCHANGED <<now, advances, state, inputs, loop, env>>

\* variant: onConnect without its guard, as in the earlier revision
ConnectNeverRejects(existingCount) == FALSE

\* onConnect closes the connection instead of admitting it
ConnectRejects(existingCount) == existingCount >= MAX_PLAYERS

\* variant: every joiner on team 1
TeamForFirst(existingCount) == 1

\* team by join order
TeamFor(existingCount) == IF existingCount = 0 THEN 1 ELSE 2

\* variant: the second admitted player starts a match in any phase
StartsMatchAnyPhase(playerCount, ph) == playerCount = 2

\* the second admitted player starts the match
StartsMatch(playerCount, ph) == playerCount = 2 /\ ph = "waiting"

OnConnect(c) ==
  /\ conn[c].stage = "created"
  /\ UNCHANGED <<now, advances, inputs, loop, lobby, pair>>
  /\ LET existingCount == PlayerCount IN
     IF ConnectRejects(existingCount)
     THEN /\ conn' = [conn EXCEPT ![c].stage = "closed"]
          /\ result' = Void
          /\ directory' = directory
          /\ forceMult' = NoForce
          /\ events' = <<>>
          /\ UNCHANGED state
     ELSE LET team == TeamFor(existingCount)
              player == [id |-> PlayerId(c),
                         team |-> team,
                         position |-> IF team = 1 THEN kickoffPositions.p1
                                                  ELSE kickoffPositions.p2,
                         velocity |-> vec3Zero]
              joined == Append(players, player)
              playerCount == Len(joined)
          IN /\ conn' = [conn EXCEPT ![c].stage = "open"]
             /\ result' = AfterNotify(lobby)
             /\ directory' = Sent(directory, lobby, ConnectCalls(playerCount))
             /\ IF StartsMatch(playerCount, phase)
                THEN /\ phase' = "countdown"
                     /\ phaseStartedAt' = now
                     /\ timeRemaining' = MATCH_TIME_LIMIT
                     /\ scores' = <<0, 0>>
                     /\ players' = KickoffPlayers(joined)
                     /\ ball' = createBall
                     /\ forceMult' = NoForce
                     /\ events' = <<EvPlayerJoined(PlayerId(c), player),
                                    EvPhaseChanged("countdown", MATCH_TIME_LIMIT)>>
                ELSE /\ players' = joined
                     /\ forceMult' = NoForce
                     /\ events' = <<EvPlayerJoined(PlayerId(c), player)>>
                     /\ UNCHANGED <<phase, phaseStartedAt, timeRemaining, scores, ball>>

\* variant: a forfeit only when nobody remains
ForfeitsWhenEmpty(remaining, ph) ==
  Len(remaining) < 1 /\ ph # "waiting" /\ ph # "finished"

\* a disconnect mid-match forfeits the match
Forfeits(remaining, ph) ==
  Len(remaining) < 2 /\ ph # "waiting" /\ ph # "finished"

\* remaining[0] ?? null
FirstRemaining(remaining) == IF remaining = <<>> THEN Null ELSE remaining[1].id

\* winner?.team ?? null, players.find((p) => p.team === winnerTeam) ?? null
TeamOf(ps, id) ==
  IF HasPlayer(ps, id) THEN (CHOOSE p \in {ps[i] : i \in DOMAIN ps} : p.id = id).team
  ELSE 0

\* variant: the first player of the map, whatever its team
FindFirst(ps, team) == IF ps = <<>> THEN Null ELSE ps[1].id

FindByTeam(ps, team) ==
  LET hits == SelectSeq(ps, LAMBDA p : p.team = team)
  IN IF hits = <<>> THEN Null ELSE hits[1].id

OnDisconnect(c) ==
  /\ conn[c].stage \in {"open", "closed"}
  /\ conn' = [conn EXCEPT ![c] = [stage |-> "gone", cs |-> NewConnState]]
  /\ UNCHANGED <<now, advances, inputs, loop, lobby, pair>>
  /\ IF ~HasPlayer(players, PlayerId(c))
     THEN /\ result' = Void
          /\ directory' = directory
          /\ forceMult' = NoForce
          /\ events' = <<>>
          /\ UNCHANGED state
     ELSE LET remaining == RemovePlayer(players, PlayerId(c))
              winner == FirstRemaining(remaining)
          IN /\ players' = remaining
             /\ result' = AfterNotify(lobby)
             /\ directory' = Sent(directory, lobby, DisconnectCalls(remaining, phase))
             /\ UNCHANGED <<scores, timeRemaining, phaseStartedAt, ball>>
             /\ IF Forfeits(remaining, phase)
                THEN /\ phase' = "finished"
                     /\ forceMult' = NoForce
                     /\ events' = <<EvPlayerLeft(PlayerId(c)),
                                    EvGameOver(winner, TeamOf(remaining, winner), scores),
                                    EvPhaseChanged("finished", timeRemaining)>>
                ELSE /\ phase' = phase
                     /\ forceMult' = NoForce
                     /\ events' = <<EvPlayerLeft(PlayerId(c))>>

(***************************************************************************)
(* Actions                                                                 *)
(***************************************************************************)
\* createState: createdAt
CreatedAt == T0

\* variant: a join state that passes the server's phase timestamp on
getJoinStateWithClock(c) ==
  [kind |-> "joinState",
   state |-> [players |-> players,
              ball |-> ball,
              scores |-> <<scores[1], scores[2]>>,
              phase |-> phase,
              timeRemaining |-> timeRemaining,
              phaseStartedAt |-> phaseStartedAt,
              maxPlayers |-> MAX_PLAYERS,
              createdAt |-> 0],
   playerId |-> PlayerId(c)]

\* the JoinStateResult (id and name, fixed at creation, are left out)
getJoinState(c) ==
  [kind |-> "joinState",
   state |-> [players |-> players,
              ball |-> ball,
              scores |-> <<scores[1], scores[2]>>,
              phase |-> phase,
              timeRemaining |-> timeRemaining,
              phaseStartedAt |-> 0,
              maxPlayers |-> MAX_PLAYERS,
              createdAt |-> 0],
   playerId |-> PlayerId(c)]

GetJoinState(c) ==
  /\ conn[c].stage = "open"
  /\ result' = getJoinState(c)
  /\ UNCHANGED <<now, advances, state, conn, inputs, loop, events, forceMult, env>>

\* what a client can send: a coordinate is a number or not finite
InputSamples ==
  {[tx |-> 200, tz |-> -300, finite |-> TRUE, active |-> TRUE, dash |-> TRUE],
   [tx |-> 0, tz |-> 0, finite |-> FALSE, active |-> TRUE, dash |-> TRUE]}

\* variant: coordinates stored as sent
ClampNothing(v, lim) == v

Clamp(v, lim) == Max(-lim, Min(lim, v))

\* variant: sendInput without its rate limit
TooSoonNever(t, lastInputAt) == FALSE

\* the rate limit of sendInput
TooSoon(t, lastInputAt) == t - lastInputAt < MIN_INPUT_INTERVAL

SendInput(c, inp) ==
  /\ conn[c].stage = "open"
  /\ inputs < MaxInputs
  /\ UNCHANGED <<now, advances, state, loop, env>>
  /\ result' = Void
  /\ IF TooSoon(now, conn[c].cs.lastInputAt)
     THEN UNCHANGED <<conn, inputs, events, forceMult>>
     ELSE /\ inputs' = inputs + 1
          /\ forceMult' = NoForce
          /\ events' = <<>>
          /\ LET maxX == FIELD_HALF_WIDTH + GOAL_DEPTH + INPUT_MARGIN
                 maxZ == FIELD_HALF_LENGTH + GOAL_DEPTH + INPUT_MARGIN
             IN conn' =
                  [conn EXCEPT
                     ![c].cs.lastInputAt = now,
                     ![c].cs.input =
                        IF ~inp.finite THEN @
                        ELSE [tx |-> Clamp(inp.tx, maxX),
                              tz |-> Clamp(inp.tz, maxZ),
                              active |-> inp.active,
                              dash |-> inp.dash]]

(***************************************************************************)
(* Phase management                                                        *)
(***************************************************************************)
\* the match state a tick works on, with the events it has broadcast so far
MatchState ==
  [phase |-> phase, scores |-> scores, timeRemaining |-> timeRemaining,
   phaseStartedAt |-> phaseStartedAt, players |-> players, ball |-> ball,
   events |-> <<>>]

Broadcast(s, evs) == [s EXCEPT !.events = @ \o evs]

\* variant: a countdown that lasts one tick longer
CountdownOverLate(elapsed) == elapsed > PRE_GAME_COUNTDOWN

CountdownOver(elapsed) == elapsed >= PRE_GAME_COUNTDOWN

\* variant: a celebration that lasts one tick longer
CelebrationOverLate(elapsed) == elapsed > GOAL_CELEBRATION + KICKOFF_FREEZE

CelebrationOver(elapsed) == elapsed >= GOAL_CELEBRATION + KICKOFF_FREEZE

MatchWon(s1, s2) == s1 >= GOALS_TO_WIN \/ s2 >= GOALS_TO_WIN

\* variant: a match that ends with phaseChanged alone
FinishQuietly(s, winnerTeam, tr) ==
  Broadcast([s EXCEPT !.phase = "finished", !.timeRemaining = tr],
            <<EvPhaseChanged("finished", tr)>>)

\* the end of a match by score or by clock: gameOver, then phaseChanged
Finish(s, winnerTeam, tr) ==
  Broadcast([s EXCEPT !.phase = "finished", !.timeRemaining = tr],
            <<EvGameOver(FindByTeam(s.players, winnerTeam), winnerTeam, s.scores),
              EvPhaseChanged("finished", tr)>>)

\* case "goalScored" once the celebration is over
AfterCelebration(s, t) ==
  IF MatchWon(s.scores[1], s.scores[2])
  THEN Finish(s, IF s.scores[1] >= GOALS_TO_WIN THEN 1 ELSE 2, s.timeRemaining)
  ELSE Broadcast([s EXCEPT !.players = KickoffPlayers(s.players),
                           !.ball = createBall,
                           !.phase = "playing",
                           !.phaseStartedAt = t],
                 <<EvPhaseChanged("playing", s.timeRemaining)>>)

\* variant: the clock ends the match even on a tie
ClockExpiredNoGoldenGoal(s, t) ==
  Finish(s, IF s.scores[1] > s.scores[2] THEN 1 ELSE 2, 0)

\* case "playing" once the clock is at zero
ClockExpired(s, t) ==
  IF s.scores[1] = s.scores[2]
  THEN Broadcast([s EXCEPT !.timeRemaining = 0,
                           !.phase = "goldenGoal",
                           !.phaseStartedAt = t],
                 <<EvPhaseChanged("goldenGoal", 0)>>)
  ELSE Finish(s, IF s.scores[1] > s.scores[2] THEN 1 ELSE 2, 0)

\* variant: a match clock that does not run
ClockHeld(tr, dtMs) == tr

\* state.timeRemaining -= dtMs
ClockAfter(tr, dtMs) == tr - dtMs

phaseTick(s, t, dtMs) ==
  LET elapsed == t - s.phaseStartedAt IN
  CASE s.phase = "countdown" ->
         IF CountdownOver(elapsed)
         THEN Broadcast([s EXCEPT !.phase = "playing", !.phaseStartedAt = t],
                        <<EvPhaseChanged("playing", s.timeRemaining)>>)
         ELSE s
    [] s.phase = "goalScored" ->
         IF CelebrationOver(elapsed) THEN AfterCelebration(s, t) ELSE s
    [] s.phase = "playing" ->
         IF ClockAfter(s.timeRemaining, dtMs) <= 0 THEN ClockExpired(s, t)
         ELSE [s EXCEPT !.timeRemaining = ClockAfter(@, dtMs)]
    [] OTHER -> s

(***************************************************************************)
(* Physics simulation                                                      *)
(***************************************************************************)
\* A sampled outcome of steps 1-4: where they leave the ball (x, z, vx, vz),
\* whether the players have moved, and which player's contact with the ball
\* was resolved last (0: no contact; 1, 2: the first, second player of the map)
MotionSamples ==
  {\* the players move, the ball is not touched
   [ball |-> FALSE, x |-> 0, z |-> 0, vx |-> 0, vz |-> 0, players |-> TRUE, by |-> 0],
   \* the first player drives the ball up to the +Z goal mouth
   [ball |-> TRUE, x |-> 5, z |-> 90, vx |-> 0, vz |-> 300, players |-> TRUE, by |-> 1],
   \* the second player drives it up to the -Z goal mouth
   [ball |-> TRUE, x |-> -5, z |-> -90, vx |-> 0, vz |-> -300, players |-> TRUE, by |-> 2],
   \* the ball rolls over the +Z goal line, inside the mouth
   [ball |-> TRUE, x |-> 5, z |-> 104, vx |-> 0, vz |-> 300, players |-> FALSE, by |-> 0],
   \* the ball rolls over the -Z goal line, inside the mouth
   [ball |-> TRUE, x |-> -5, z |-> -104, vx |-> 0, vz |-> -300, players |-> FALSE, by |-> 0],
   \* the ball rolls over the +Z line between the normal and the golden-goal post
   [ball |-> TRUE, x |-> 21, z |-> 104, vx |-> 300, vz |-> 300, players |-> FALSE, by |-> 0]}

\* Step 4 clamps the ball's speed to BALL_MAX_SPEED (0.65 a nominal tick), and
\* a pass covers at most MAX_DT_MS / SERVER_TICK_INTERVAL nominal ticks: the
\* ball travels at most 2 field units in a pass
BallReach == (BALL_MAX_SPEED * MAX_DT_MS) \div (SERVER_TICK_INTERVAL * 100)

\* A sample beyond a goal line is taken only by a ball within reach of it, so
\* that no pass carries the ball from the kickoff spot into a goal; a sample
\* inside the field stands for the passes that bring the ball there
Reachable(b, m) ==
  \/ ~m.ball
  \/ Abs(m.z) <= FIELD_HALF_LENGTH
  \/ /\ Abs(m.x - b.position.x) <= BallReach
     /\ Abs(m.z - b.position.z) <= BallReach

\* nothing moves: every entity is at rest, or the pass is skipped
NoMotion ==
  [ball |-> FALSE, x |-> 0, z |-> 0, vx |-> 0, vz |-> 0, players |-> FALSE, by |-> 0]

\* the outcomes steps 1-4 of a pass can have for a ball b
Outcomes(b) == {NoMotion} \cup {m \in MotionSamples : Reachable(b, m)}

Moving(m) ==
  [position |-> [x |-> m.x, y |-> GROUND_Y, z |-> m.z],
   velocity |-> [x |-> m.vx, y |-> 0, z |-> m.vz]]

Kinematics(e) == [position |-> e.position, velocity |-> e.velocity]

\* the sampled motion of a player: off its kickoff spot, towards midfield
PlayerSample(p) ==
  IF p.team = 1 THEN [x |-> -10, z |-> -30, vx |-> 100, vz |-> 0]
  ELSE [x |-> 10, z |-> 30, vx |-> -100, vz |-> 0]

\* variant: a dash that ignores the cooldown
DashActivatesAnyTime(cs, t) == cs.input.dash

\* step 1: dash activation consumes the buffered flag
DashActivates(cs, t) == cs.input.dash /\ t >= cs.dashCooldownUntil

\* variant: an activation that leaves the buffered flag set
ApplyDashKeepsFlag(cn, ps, t) ==
  [c \in Conns |->
     IF /\ cn[c].stage \in {"open", "closed"}
        /\ HasPlayer(ps, PlayerId(c))
        /\ DashActivates(cn[c].cs, t)
     THEN [cn[c] EXCEPT !.cs.dashStartedAt = t,
                        !.cs.dashCooldownUntil = t + DASH_COOLDOWN]
     ELSE cn[c]]

ApplyDash(cn, ps, t) ==
  [c \in Conns |->
     IF /\ cn[c].stage \in {"open", "closed"}
        /\ HasPlayer(ps, PlayerId(c))
        /\ DashActivates(cn[c].cs, t)
     THEN [cn[c] EXCEPT !.cs.dashStartedAt = t,
                        !.cs.dashCooldownUntil = t + DASH_COOLDOWN,
                        !.cs.input.dash = FALSE]
     ELSE cn[c]]

\* variant: a dash that still counts at DASH_DURATION
ForceMultInclusive(t, dashStartedAt) ==
  IF t - dashStartedAt <= DASH_DURATION THEN DASH_FORCE_MULT ELSE FORCE_UNIT

\* step 1: isDashing and forceMult, read after the dash activation
ForceMult(t, dashStartedAt) ==
  IF t - dashStartedAt < DASH_DURATION THEN DASH_FORCE_MULT ELSE FORCE_UNIT

\* the multipliers a pass at t computes, one per connection with a player
PassForce(cn, ps, t) ==
  [c \in Conns |->
     IF cn[c].stage \in {"open", "closed"} /\ HasPlayer(ps, PlayerId(c))
     THEN ForceMult(t, cn[c].cs.dashStartedAt)
     ELSE 0]

\* variant: the widened goal mouth in every phase
GoalHalfWidthGolden(ph) == GOLDEN_GOAL_HALF_WIDTH

GoalHalfWidth(ph) ==
  IF ph = "goldenGoal" THEN GOLDEN_GOAL_HALF_WIDTH ELSE GOAL_HALF_WIDTH

\* step 6: checkGoal
checkGoal(s, goalHW, t) ==
  LET teamScored == GoalTeam(s.ball, goalHW)
      sc == AddGoal(s.scores, teamScored)
  IN IF teamScored = 0 THEN s
     ELSE Broadcast([s EXCEPT !.scores = sc,
                              !.phase = "goalScored",
                              !.phaseStartedAt = t],
                    <<EvGoalScored(s.ball.lastTouchedBy, teamScored, sc),
                      EvPhaseChanged("goalScored", s.timeRemaining)>>)

\* variant: goal detection in every active phase
ChecksGoalAlways(ph) == TRUE

\* goal detection is skipped during waiting (solo practice)
ChecksGoal(ph) == ph # "waiting"

\* m: the sampled outcome of steps 1-4 of this pass
physicsTick(s, t, m) ==
  IF Len(s.players) = 0 THEN s
  ELSE
    LET goalHW == GoalHalfWidth(s.phase)
        ps == [i \in DOMAIN s.players |->
                 LET p == s.players[i]
                     k == IF m.players THEN Moving(PlayerSample(p)) ELSE Kinematics(p)
                 IN wallBounce([p EXCEPT !.position = k.position,
                                         !.velocity = k.velocity],
                               MARBLE_RADIUS, WALL_RESTITUTION_PLAYER, goalHW)]
        bk == IF m.ball THEN Moving(m) ELSE Kinematics(s.ball)
        b == wallBounce([position |-> bk.position,
                         velocity |-> bk.velocity,
                         lastTouchedBy |->
                           IF m.by \in DOMAIN s.players THEN s.players[m.by].id
                           ELSE s.ball.lastTouchedBy],
                        BALL_RADIUS, WALL_RESTITUTION_BALL, goalHW)
        s2 == [s EXCEPT !.players = ps, !.ball = b]
    IN IF ChecksGoal(s.phase) THEN checkGoal(s2, goalHW, t) ELSE s2

(***************************************************************************)
(* Contact resolution (steps 2 and 3), on bodies measured in thousandths   *)
(***************************************************************************)
\* a / b to the nearest integer, halves away from zero
RoundDiv(a, b) ==
  IF a >= 0 THEN (2 * a + b) \div (2 * b) ELSE -((2 * (-a) + b) \div (2 * b))

\* Math.sqrt, to the thousandth below
Sqrt(n) == CHOOSE r \in 0..(2 * MARBLE_RADIUS * FINE) : r * r <= n /\ n < (r + 1) * (r + 1)

DistSq(a, b) ==
  LET dx == b.position.x - a.position.x
      dz == b.position.z - a.position.z
  IN dx * dx + dz * dz

\* distSq >= minDist * minDist || distSq < 0.000001
SkipsContact(distSq, minDist) == distSq >= minDist * minDist \/ distSq < 1

Shift(v, dx, dz) == [v EXCEPT !.x = @ + dx, !.z = @ + dz]

resolveCollision(a, b, rA, rB, pushForce) ==
  LET dx == b.position.x - a.position.x
      dz == b.position.z - a.position.z
      distSq == dx * dx + dz * dz
      minDist == rA + rB
  IN IF SkipsContact(distSq, minDist) THEN <<a, b>>
     ELSE
       LET dist == Sqrt(distSq)
           overlap == RoundDiv(minDist - dist, 2)
           ox == RoundDiv(dx * overlap, dist)
           oz == RoundDiv(dz * overlap, dist)
           relVx == a.velocity.x - b.velocity.x
           relVz == a.velocity.z - b.velocity.z
           relDot == RoundDiv(relVx * dx + relVz * dz, dist)
           push == IF relDot > 0 THEN RoundDiv(relDot * pushForce, 10) ELSE 0
           basePush == pushForce * BASE_PUSH_SHARE * 10
           jx == RoundDiv(dx * push, dist) + RoundDiv(dx * basePush, dist)
           jz == RoundDiv(dz * push, dist) + RoundDiv(dz * basePush, dist)
       IN <<[a EXCEPT !.position = Shift(@, -ox, -oz), !.velocity = Shift(@, -jx, -jz)],
            [b EXCEPT !.position = Shift(@, ox, oz), !.velocity = Shift(@, jx, jz)]>>

totalMass == PLAYER_MASS + BALL_MASS

jPlayer(relDot) == RoundDiv(2 * BALL_MASS * relDot, totalMass)

\* variant: the ball given the player's share
jBallAsPlayer(relDot) == RoundDiv(2 * BALL_MASS * relDot, totalMass)

jBall(relDot) == RoundDiv(2 * PLAYER_MASS * relDot, totalMass)

\* variant: the last toucher recorded only when the two are closing
ToucherIfClosing(player, b, relDot) ==
  IF relDot > 0 THEN player.id ELSE b.lastTouchedBy

\* ball.lastTouchedBy = id
Toucher(player, b, relDot) == player.id

\* one turn of the loop of step 3: the ball b against one player
ballPlayerCollision(player, b) ==
  LET dx == b.position.x - player.position.x
      dz == b.position.z - player.position.z
      distSq == dx * dx + dz * dz
      minDist == (MARBLE_RADIUS + BALL_RADIUS) * FINE
  IN IF SkipsContact(distSq, minDist) THEN <<player, b>>
     ELSE
       LET dist == Sqrt(distSq)
           overlap == minDist - dist
           playerPush == RoundDiv(overlap * BALL_MASS, totalMass)
           ballPush == RoundDiv(overlap * PLAYER_MASS, totalMass)
           relVx == player.velocity.x - b.velocity.x
           relVz == player.velocity.z - b.velocity.z
           relDot == RoundDiv(relVx * dx + relVz * dz, dist)
           jP == IF relDot > 0 THEN jPlayer(relDot) ELSE 0
           jB == IF relDot > 0 THEN jBall(relDot) ELSE 0
       IN <<[player EXCEPT
               !.position = Shift(@, -RoundDiv(dx * playerPush, dist),
                                     -RoundDiv(dz * playerPush, dist)),
               !.velocity = Shift(@, -RoundDiv(dx * jP, dist), -RoundDiv(dz * jP, dist))],
            [b EXCEPT
               !.position = Shift(@, RoundDiv(dx * ballPush, dist),
                                     RoundDiv(dz * ballPush, dist)),
               !.velocity = Shift(@, RoundDiv(dx * jB, dist), RoundDiv(dz * jB, dist)),
               !.lastTouchedBy = Toucher(player, b, relDot)]>>


(***************************************************************************)
(* Server tick loop: one iteration of the while loop of run                *)
(***************************************************************************)
\* variant: a physics pass during the celebration too
PhysicsActiveInCelebration(ph) == ph \in {"waiting", "playing", "goldenGoal", "goalScored"}

\* physicsActive
PhysicsActive(ph) == ph \in {"waiting", "playing", "goldenGoal"}

\* variant: the loop gives up at EMPTY_TIMEOUT, not after it
LoopExitsAtTimeout(connCount, ph, idle) ==
  connCount = 0 /\ (ph = "finished" \/ idle >= EMPTY_TIMEOUT)

LoopExits(connCount, ph, idle) ==
  connCount = 0 /\ (ph = "finished" \/ idle > EMPTY_TIMEOUT)

SnapshotDue(t, lastSnap) == t - lastSnap >= SNAPSHOT_BROADCAST_INTERVAL

\* variant: a snapshot also of an empty match
broadcastSnapshotAlways(s, tick) ==
  <<EvSnapshot(s.players, s.ball, tick, s.timeRemaining)>>

\* broadcastSnapshot emits nothing when no players are present
broadcastSnapshot(s, tick) ==
  IF Len(s.players) = 0 THEN <<>>
  ELSE <<EvSnapshot(s.players, s.ball, tick, s.timeRemaining)>>

\* variant: the elapsed time taken as measured, without the cap
MeasuredDeltaUncapped(t, last) == t - last

\* dtMs
MeasuredDelta(t, last) == Min(t - last, MAX_DT_MS)

\* d: the wall-clock time the loop slept before this iteration (the first
\* iteration runs at once); handlers run while the loop sleeps
Tick(d) ==
  /\ runState \in {"first", "sleeping"}
  /\ runState = "first" <=> d = 0
  /\ d > 0 => advances < MaxAdvances
  /\ LET t == now + d
         dtMs == MeasuredDelta(t, lastTickTime)
         connCount == Cardinality(LiveConns)
         emptyAt1 == IF connCount = 0 THEN (IF emptyAt = 0 THEN t ELSE emptyAt) ELSE 0
     IN /\ lastTickTime' = t
        /\ emptyAt' = emptyAt1
        /\ now' = t
        /\ advances' = IF d > 0 THEN advances + 1 ELSE advances
        /\ UNCHANGED <<inputs, lobby, pair>>
        /\ IF LoopExits(connCount, phase, t - emptyAt1)
           THEN /\ runState' = "exited"
                /\ result' = AfterNotify(lobby)
                /\ directory' = Sent(directory, lobby, <<RemoveRoom>>)
                /\ forceMult' = NoForce
                /\ events' = <<>>
                /\ UNCHANGED <<state, conn, lastSnapshot, tickCounter>>
           ELSE LET s1 == phaseTick(MatchState, t, dtMs)
                    active == PhysicsActive(s1.phase) /\ Len(s1.players) > 0
                    snap == PhysicsActive(s1.phase) /\ SnapshotDue(t, lastSnapshot)
                IN \E m \in IF active THEN Outcomes(s1.ball) ELSE {NoMotion} :
                     LET s2 == IF PhysicsActive(s1.phase) THEN physicsTick(s1, t, m)
                               ELSE s1
                     IN /\ runState' = "sleeping"
                        /\ result' = IF s1.phase = "finished" /\ phase # "finished"
                                      THEN AfterNotify(lobby) ELSE Void
                        /\ directory' = IF s1.phase = "finished" /\ phase # "finished"
                                         THEN Sent(directory, lobby, <<RemoveRoom>>)
                                         ELSE directory
                        /\ phase' = s2.phase
                        /\ scores' = s2.scores
                        /\ timeRemaining' = s2.timeRemaining
                        /\ phaseStartedAt' = s2.phaseStartedAt
                        /\ players' = s2.players
                        /\ ball' = s2.ball
                        /\ conn' = IF active THEN ApplyDash(conn, s1.players, t) ELSE conn
                        /\ forceMult' =
                             IF active
                             THEN PassForce(ApplyDash(conn, s1.players, t), s1.players, t)
                             ELSE NoForce
                        /\ lastSnapshot' =
                             IF snap THEN lastSnapshot + SNAPSHOT_BROADCAST_INTERVAL
                             ELSE lastSnapshot
                        /\ tickCounter' = IF snap THEN tickCounter + 1 ELSE tickCounter
                        /\ events' = s2.events \o
                                     (IF snap THEN broadcastSnapshot(s2, tickCounter)
                                      ELSE <<>>)

\* the wall clock after the loop has exited
Advance(d) ==
  /\ advances < MaxAdvances
  /\ runState = "exited"
  /\ now' = now + d
  /\ advances' = advances + 1
  /\ result' = Void
  /\ forceMult' = NoForce
  /\ events' = <<>>
  /\ UNCHANGED <<state, conn, inputs, loop, env>>

\* the connection handlers, the read-only action and the tick loop
NextMatch ==
  \/ \E c \in Conns : CreateConnState(c)
  \/ \E c \in Conns : OnConnect(c)
  \/ \E c \in Conns : OnDisconnect(c)
  \/ \E d \in Steps \cup {0} : Tick(d)
  \/ \E d \in Steps : Advance(d)

\* with clients that send input
NextInput ==
  \/ NextMatch
  \/ \E c \in Conns, inp \in InputSamples : SendInput(c, inp)

\* with clients that ask for the join state
NextJoin ==
  \/ NextMatch
  \/ \E c \in Conns : GetJoinState(c)

Next ==
  \/ NextInput
  \/ \E c \in Conns : GetJoinState(c)

\* a match from its construction, with clients that send input
Spec == Init /\ [][Next]_vars

\* a match from its construction, with clients that never send input
SpecMatch == Init /\ [][NextMatch]_vars

(***************************************************************************)
(* A match late in its clock.  Connections 1 and 2 joined in this order,   *)
(* the last kickoff was at T0, and the ticks since then have run the clock *)
(* down to its last 100 ms or less; each player holds its pointer on its   *)
(* own kickoff spot (inside the dead zone, so no force), nothing has moved *)
(* since the kickoff, and the loop has just run the tick that broadcast    *)
(* snapshot number LateTicks.                                              *)
(***************************************************************************)
LateNow == T0 + MATCH_TIME_LIMIT

LateScores == {<<0, 0>>, <<1, 0>>, <<0, 1>>, <<4, 4>>}

LateClocks == {50, 100}

LatePlayers ==
  <<[id |-> PlayerId(1), team |-> 1, position |-> kickoffPositions.p1,
     velocity |-> vec3Zero],
    [id |-> PlayerId(2), team |-> 2, position |-> kickoffPositions.p2,
     velocity |-> vec3Zero]>>

LateConn(c) ==
  IF c > 2 THEN [stage |-> "none", cs |-> NewConnState]
  ELSE [stage |-> "open",
        cs |-> [input |-> [tx |-> 0,
                           tz |-> IF c = 1 THEN -KICKOFF_Z ELSE KICKOFF_Z,
                           active |-> TRUE, dash |-> FALSE],
                dashCooldownUntil |-> 0,
                dashStartedAt |-> 0,
                lastInputAt |-> T0]]

InitLate ==
  /\ now = LateNow
  /\ advances = 0
  /\ phase = "playing"
  /\ scores \in LateScores
  /\ timeRemaining \in LateClocks
  /\ phaseStartedAt = T0
  /\ players = LatePlayers
  /\ ball = createBall
  /\ conn = [c \in Conns |-> LateConn(c)]
  /\ inputs = MaxInputs - 1
  /\ runState = "sleeping"
  /\ lastTickTime = LateNow
  /\ emptyAt = 0
  /\ tickCounter = LateTicks + 1
  /\ lastSnapshot = (LateTicks + 1) * SNAPSHOT_BROADCAST_INTERVAL
  /\ events = <<EvSnapshot(LatePlayers, createBall, LateTicks, timeRemaining)>>
  /\ forceMult = [c \in Conns |-> IF c > 2 THEN 0 ELSE FORCE_UNIT]
  /\ result = Void
  /\ lobby = "up"
  /\ pair = NoPair
  /\ directory = NoDirectory

SpecLate == InitLate /\ [][NextMatch]_vars

\* both: every phase is reached
SpecAll == (Init \/ InitLate) /\ [][NextMatch]_vars

\* an iteration of the loop, by what it does to the clock and to the loop's
\* own variables (the guard and the first assignments of Tick)
LoopTurn ==
  \E d \in Steps \cup {0} :
    /\ runState \in {"first", "sleeping"}
    /\ runState = "first" <=> d = 0
    /\ d > 0 => advances < MaxAdvances
    /\ now' = now + d
    /\ lastTickTime' = now + d
    /\ runState' \in {"sleeping", "exited"}

loopClock == <<now, lastTickTime, runState>>

\* the loop's sleep always ends (a setTimeout of at least 1 ms), so an
\* iteration that can run does run; the handlers are under no obligation
SpecLive == SpecAll /\ WF_loopClock(LoopTurn)

\* a match late in its clock, with clients that send input
SpecInput == InitLate /\ [][NextInput]_vars

\* a match late in its clock, with clients that ask for the join state
SpecJoin == InitLate /\ [][NextJoin]_vars

(***************************************************************************)
(* Step 5 alone: wallBounce applied to entities placed anywhere on a grid  *)
(* of positions around every wall, post and line, in both goal widths      *)
(***************************************************************************)
WallXs == LET xs == {0} \cup 14..31 \cup 54..62 IN xs \cup {-x : x \in xs}
WallZs == LET zs == {0} \cup 94..101 \cup 114..122 IN zs \cup {-z : z \in zs}

WallVelocities == {[x |-> 300, y |-> 0, z |-> 400], [x |-> -300, y |-> 0, z |-> -400]}

WallBodies ==
  {[position |-> [x |-> x, y |-> GROUND_Y, z |-> z], velocity |-> v] :
     x \in WallXs, z \in WallZs, v \in WallVelocities}

AtRest == [position |-> [x |-> 0, y |-> GROUND_Y, z |-> 0], velocity |-> vec3Zero]

\* one player and the ball after steps 1-4 of a pass, one of them anywhere
InitWall ==
  /\ now = T0
  /\ advances = 0
  /\ phase \in {"playing", "goldenGoal"}
  /\ scores = <<0, 0>>
  /\ timeRemaining = 0
  /\ phaseStartedAt = T0
  /\ \E e \in WallBodies, onBall \in BOOLEAN :
       LET p == IF onBall THEN AtRest ELSE e
           b == IF onBall THEN e ELSE AtRest
       IN /\ players = <<[id |-> PlayerId(1), team |-> 1,
                           position |-> p.position, velocity |-> p.velocity]>>
          /\ ball = [position |-> b.position, velocity |-> b.velocity,
                      lastTouchedBy |-> Null]
  /\ conn = [c \in Conns |-> [stage |-> IF c = 1 THEN "open" ELSE "none",
                                cs |-> NewConnState]]
  /\ inputs = 0
  /\ runState = "sleeping"
  /\ lastTickTime = T0
  /\ emptyAt = 0
  /\ lastSnapshot = 0
  /\ tickCounter = 0
  /\ events = <<>>
  /\ forceMult = NoForce
  /\ result = Void
  /\ lobby = "up"
  /\ pair = NoPair
  /\ directory = NoDirectory

\* step 5 of physicsTick
WallPass ==
  LET goalHW == GoalHalfWidth(phase) IN
  /\ players' = [i \in DOMAIN players |->
                   wallBounce(players[i], MARBLE_RADIUS, WALL_RESTITUTION_PLAYER, goalHW)]
  /\ ball' = wallBounce(ball, BALL_RADIUS, WALL_RESTITUTION_BALL, goalHW)
  /\ UNCHANGED <<now, advances, phase, scores, timeRemaining, phaseStartedAt,
                  conn, inputs, loop, events, forceMult, result, env>>

SpecWall == InitWall /\ [][WallPass]_vars

(***************************************************************************)
(* Steps 2 and 3 alone: one pair of bodies in or near contact, measured in *)
(* thousandths.  Offsets are multiples of 3-4-5 triangles and velocities   *)
(* multiples of 325 or 250, so that the arithmetic of the contact is exact;*)
(* one offset is not, one pair just touches, and one pair is coincident.   *)
(***************************************************************************)
Fine(x, z) == [x |-> x, y |-> GROUND_Y * FINE, z |-> z]
FineV(x, z) == [x |-> x, y |-> 0, z |-> z]

\* two players driven into the same corner share the clamped position
CornerSpot == <<(FIELD_HALF_WIDTH - MARBLE_RADIUS) * FINE, (FIELD_HALF_LENGTH - MARBLE_RADIUS) * FINE>>

\* where the second player of a pair stands
At(o) == IF o = <<0, 0>> THEN CornerSpot ELSE <<0, 0>>

PlayerOffsets ==
  {<<300, 400>>, <<-300, -400>>, <<0, 800>>, <<800, 0>>, <<300, 300>>,
   <<0, 1>>, <<600, 800>>, <<0, 0>>}

BallOffsets ==
  {<<402, 536>>, <<-441, -588>>, <<363, -484>>, <<540, 0>>, <<0, -540>>,
   <<480, 640>>, <<0, 0>>}

PlayerPairs ==
  {[kind |-> "players", done |-> FALSE,
    a |-> [id |-> PlayerId(1), position |-> Fine(At(o)[1] - o[1], At(o)[2] - o[2]),
           velocity |-> va],
    b |-> [id |-> PlayerId(2), position |-> Fine(At(o)[1], At(o)[2]), velocity |-> vb]] :
     o \in PlayerOffsets,
     va \in {FineV(0, 0), FineV(250, 0), FineV(-250, 500)},
     vb \in {FineV(0, 0), FineV(-250, -250)}}

BallPairs ==
  {[kind |-> "ballPlayer", done |-> FALSE,
    a |-> [id |-> PlayerId(1), position |-> Fine(-o[1], -o[2]), velocity |-> va],
    b |-> [position |-> Fine(0, 0), velocity |-> vb, lastTouchedBy |-> t]] :
     o \in BallOffsets,
     va \in {FineV(0, 0), FineV(325, 650), FineV(-325, 0)},
     vb \in {FineV(0, 0), FineV(-650, 325)},
     t \in {Null, PlayerId(2)}}

InitCollide ==
  /\ now = T0
  /\ advances = 0
  /\ phase = "playing"
  /\ scores = <<0, 0>>
  /\ timeRemaining = 0
  /\ phaseStartedAt = T0
  /\ players = <<>>
  /\ ball = [position |-> AtRest.position, velocity |-> vec3Zero, lastTouchedBy |-> Null]
  /\ conn = [c \in Conns |-> [stage |-> "none", cs |-> NewConnState]]
  /\ inputs = 0
  /\ runState = "sleeping"
  /\ lastTickTime = T0
  /\ emptyAt = 0
  /\ lastSnapshot = 0
  /\ tickCounter = 0
  /\ events = <<>>
  /\ forceMult = NoForce
  /\ result = Void
  /\ lobby = "up"
  /\ pair \in PlayerPairs \cup BallPairs
  /\ directory = NoDirectory

Resolved(r) == [pair EXCEPT !.a = r[1], !.b = r[2], !.done = TRUE]

\* step 2 for the pair
CollidePlayers ==
  /\ pair.kind = "players"
  /\ ~pair.done
  /\ pair' = Resolved(resolveCollision(pair.a, pair.b, MARBLE_RADIUS * FINE,
                                       MARBLE_RADIUS * FINE, PUSH_FORCE))
  /\ UNCHANGED <<now, advances, state, conn, inputs, loop, events, forceMult, result, lobby,
                  directory>>

\* step 3 for the pair
CollideBallPlayer ==
  /\ pair.kind = "ballPlayer"
  /\ ~pair.done
  /\ pair' = Resolved(ballPlayerCollision(pair.a, pair.b))
  /\ UNCHANGED <<now, advances, state, conn, inputs, loop, events, forceMult, result, lobby,
                  directory>>

SpecCollide == InitCollide /\ [][CollidePlayers \/ CollideBallPlayer]_vars

(***************************************************************************)
(* A match whose lobby actor comes and goes: its calls succeed, are        *)
(* rejected, or stay unanswered                                            *)
(***************************************************************************)
LobbyStates == {"up", "down", "slow"}

\* the environment: the lobby actor changes how it answers
LobbyTurns(l) ==
  /\ l # lobby
  /\ lobby' = l
  /\ UNCHANGED <<now, advances, state, conn, inputs, loop, events, forceMult, result, pair,
                  directory>>

NextLobby ==
  \/ \E c \in 1..2 : CreateConnState(c)
  \/ \E c \in 1..2 : OnConnect(c)
  \/ \E c \in 1..2 : OnDisconnect(c)
  \/ \E d \in Steps \cup {0} : Tick(d)
  \/ \E d \in Steps : Advance(d)
  \/ \E l \in LobbyStates : LobbyTurns(l)

SpecLobby == Init /\ [][NextLobby]_vars

\* a match late in its clock whose loop iterates 20 ms apart (the measured
\* delta is taken as it is) or 100 ms apart (it is capped)
ClockSteps == {20, 100}

NextClock ==
  \/ \E c \in Conns : CreateConnState(c)
  \/ \E c \in Conns : OnConnect(c)
  \/ \E c \in Conns : OnDisconnect(c)
  \/ \E d \in ClockSteps : Tick(d)
  \/ \E d \in ClockSteps : Advance(d)

SpecClock == (Init \/ InitLate) /\ [][NextClock \/ Tick(0)]_vars

\* the match together with a bench on which one ball-player contact is
\* resolved: the bench's match is over and its loop gone, so that only the
\* contact acts there
InitTouch ==
  /\ now = T0
  /\ advances = MaxAdvances
  /\ phase = "finished"
  /\ scores = <<0, 0>>
  /\ timeRemaining = 0
  /\ phaseStartedAt = T0
  /\ players = <<>>
  /\ ball = [position |-> AtRest.position, velocity |-> vec3Zero, lastTouchedBy |-> Null]
  /\ conn = [c \in Conns |-> [stage |-> "gone", cs |-> NewConnState]]
  /\ inputs = 0
  /\ runState = "exited"
  /\ lastTickTime = T0
  /\ emptyAt = T0
  /\ lastSnapshot = 0
  /\ tickCounter = 0
  /\ events = <<>>
  /\ forceMult = NoForce
  /\ result = Void
  /\ lobby = "up"
  /\ pair \in BallPairs
  /\ directory = NoDirectory

SpecTouch == (Init \/ InitLate \/ InitTouch) /\ [][NextMatch \/ CollideBallPlayer]_vars

(***************************************************************************)
(* A match with a few ticks of clock left, whose loop iterates 2900 ms     *)
(* apart (a celebration lasts one iteration) and is scheduled fairly       *)
(***************************************************************************)
FairSteps == {2900}

\* the iterations the loop is followed for
FairTicks == 6

FairClocks == {MAX_DT_MS, 2 * MAX_DT_MS, 3 * MAX_DT_MS}

InitFair ==
  /\ now = LateNow
  /\ advances = MaxAdvances - FairTicks
  /\ phase = "playing"
  /\ scores \in {<<0, 0>>, <<1, 0>>, <<4, 4>>}
  /\ timeRemaining \in FairClocks
  /\ phaseStartedAt = T0
  /\ players = LatePlayers
  /\ ball = createBall
  /\ conn = [c \in Conns |-> LateConn(c)]
  /\ inputs = MaxInputs - 1
  /\ runState = "sleeping"
  /\ lastTickTime = LateNow
  /\ emptyAt = 0
  /\ tickCounter = LateTicks + 1
  /\ lastSnapshot = (LateTicks + 1) * SNAPSHOT_BROADCAST_INTERVAL
  /\ events = <<EvSnapshot(LatePlayers, createBall, LateTicks, timeRemaining)>>
  /\ forceMult = [c \in Conns |-> IF c > 2 THEN 0 ELSE FORCE_UNIT]
  /\ result = Void
  /\ lobby = "up"
  /\ pair = NoPair
  /\ directory = NoDirectory

NextFair ==
  \/ \E c \in Conns : CreateConnState(c)
  \/ \E c \in Conns : OnConnect(c)
  \/ \E c \in Conns : OnDisconnect(c)
  \/ \E c \in Conns, inp \in InputSamples : SendInput(c, inp)
  \/ \E d \in FairSteps : Tick(d)
  \/ \E d \in FairSteps : Advance(d)

SpecFair == InitFair /\ [][NextFair]_vars /\ WF_loopClock(LoopTurn)

(***************************************************************************)
(* The match with the lobby's entry for its room: the room was created     *)
(* through the lobby, and the calls the match makes arrive in the order    *)
(* they were made, at any later moment                                     *)
(***************************************************************************)
InitDirectory ==
  /\ now = T0
  /\ advances = 0
  /\ phase = "waiting"
  /\ scores = <<0, 0>>
  /\ timeRemaining = MATCH_TIME_LIMIT
  /\ phaseStartedAt = T0
  /\ players = NoPlayers
  /\ ball = createBall
  /\ conn = [c \in Conns |-> [stage |-> "none", cs |-> NewConnState]]
  /\ inputs = 0
  /\ runState = "first"
  /\ lastTickTime = T0
  /\ emptyAt = 0
  /\ lastSnapshot = 0
  /\ tickCounter = 0
  /\ events = <<>>
  /\ forceMult = NoForce
  /\ result = Void
  /\ lobby = "up"
  /\ pair = NoPair
  /\ directory = [kind |-> "lobby", room |-> NewRoom, flight |-> <<>>]

\* the lobby serves the oldest call on its way
Deliver ==
  /\ directory.kind = "lobby"
  /\ directory.flight # <<>>
  /\ directory' = [directory EXCEPT !.room = Served(@, Head(directory.flight)),
                                    !.flight = Tail(@)]
  /\ UNCHANGED <<now, advances, state, conn, inputs, loop, events, forceMult, result,
                  lobby, pair>>

DirectorySteps == {2900}

NextDirectory ==
  \/ \E c \in Conns : CreateConnState(c)
  \/ \E c \in Conns : OnConnect(c)
  \/ \E c \in Conns : OnDisconnect(c)
  \/ \E d \in DirectorySteps \cup {0} : Tick(d)
  \/ \E d \in DirectorySteps : Advance(d)
  \/ Deliver

SpecDirectory == InitDirectory /\ [][NextDirectory]_vars

\* a room left alone: the loop sleeps for seconds (a suspended host), so
\* that the idle window of EMPTY_TIMEOUT is reached and just missed
IdleSteps == {5000, 5001}

NextIdle ==
  \/ \E c \in 1..2 : CreateConnState(c)
  \/ \E c \in 1..2 : OnConnect(c)
  \/ \E c \in 1..2 : OnDisconnect(c)
  \/ \E d \in IdleSteps \cup {0} : Tick(d)
  \/ \E d \in IdleSteps : Advance(d)

SpecIdle == Init /\ [][NextIdle]_vars

(***************************************************************************)
(* A single client practising alone in a waiting match: the loop iterates  *)
(* as close as 20 ms apart, and the client sends input at any time.        *)
(***************************************************************************)
SoloSteps == {20, 100, 2900}

NextSolo ==
  \/ CreateConnState(1)
  \/ OnConnect(1)
  \/ \E inp \in InputSamples : SendInput(1, inp)
  \/ \E d \in SoloSteps \cup {0} : Tick(d)

SpecSolo == Init /\ [][NextSolo]_vars

(***************************************************************************)
(* Properties                                                              *)
(***************************************************************************)
\* a step of the tick loop that ran an iteration
TickStep ==
  /\ runState # "exited"
  /\ runState' = "sleeping"
  /\ runState = "first" \/ lastTickTime' # lastTickTime

\* a step that admitted a player, a step that removed one
JoinStep == Len(players') = Len(players) + 1

LeaveStep == Len(players') = Len(players) - 1

EventsOf(evs, type) == {i \in DOMAIN evs : evs[i].type = type}

HasEvent(evs, ev) == \E i \in DOMAIN evs : evs[i] = ev

ActivePhases == {"countdown", "playing", "goalScored", "goldenGoal"}

\* the celebration of a goal scored in goldenGoal: the clock stays at zero
GoldenGoalScored == phase = "goalScored" /\ timeRemaining = 0

\* C1 -- a goal detected while the phase is goldenGoal ends the match: from
\* the goal on, through its celebration, the phase never returns to playing,
\* whatever the scores (read generously: the celebration is allowed)
C1_GoldenGoalEndsMatch ==
  [][/\ (phase = "goldenGoal" /\ scores' # scores)
          => phase' \in {"goalScored", "finished"}
     /\ GoldenGoalScored => phase' \in {"goalScored", "finished"}]_vars

\* C2 -- finished is terminal: no tick, connect, disconnect or sendInput
\* changes the phase once it is finished
C2_FinishedIsTerminal == [][phase = "finished" => phase' = "finished"]_vars

\* a player has joined a finished match
C2_Witness ==
  /\ phase = "finished"
  /\ Len(players) = MAX_PLAYERS
  /\ EventsOf(events, "playerJoined") # {}

\* C3 -- a disconnect of a player in countdown, playing, goalScored or
\* goldenGoal leaves the phase finished and broadcasts a gameOver naming the
\* remaining player (id and team), or null when nobody remains; in waiting
\* or finished it removes the player and leaves the phase unchanged
C3_DisconnectForfeits ==
  [][LeaveStep =>
       /\ \A i \in DOMAIN players' : HasPlayer(players, players'[i].id)
       /\ EventsOf(events', "playerLeft") # {}
       /\ IF phase \in ActivePhases
          THEN /\ phase' = "finished"
               /\ IF Len(players') = 0
                  THEN HasEvent(events', EvGameOver(Null, 0, scores'))
                  ELSE HasEvent(events', EvGameOver(players'[1].id,
                                                    players'[1].team, scores'))
          ELSE /\ phase' = phase
               /\ EventsOf(events', "gameOver") = {}]_vars

\* a player has left in mid-match and the one who stays has won by forfeit
C3_Witness ==
  /\ phase = "finished"
  /\ Len(players) = 1
  /\ EventsOf(events, "playerLeft") # {}
  /\ HasEvent(events, EvGameOver(players[1].id, players[1].team, scores))

\* each player on its team's kickoff spot at rest, the ball at rest on the
\* centre spot with no last toucher
AtKickoff(ps, b) ==
  /\ \A i \in DOMAIN ps :
       /\ ps[i].position = [x |-> 0, y |-> GROUND_Y,
                            z |-> IF ps[i].team = 1 THEN -KICKOFF_Z ELSE KICKOFF_Z]
       /\ ps[i].velocity = [x |-> 0, y |-> 0, z |-> 0]
  /\ b = [position |-> [x |-> 0, y |-> GROUND_Y, z |-> 0],
          velocity |-> [x |-> 0, y |-> 0, z |-> 0],
          lastTouchedBy |-> Null]

\* C4 -- the first connection to an empty waiting match leaves it waiting
\* with one player; the connection that admits the second player in waiting
\* makes the phase countdown, the scores 0-0, timeRemaining MATCH_TIME_LIMIT
\* and puts both players and the ball at kickoff, in that same handler
C4_SecondPlayerStartsCountdown ==
  [][(JoinStep /\ phase = "waiting") =>
       IF Len(players) = 0
       THEN phase' = "waiting" /\ Len(players') = 1
       ELSE /\ Len(players') = 2
            /\ phase' = "countdown"
            /\ scores' = <<0, 0>>
            /\ timeRemaining' = MATCH_TIME_LIMIT
            /\ players'[1].team # players'[2].team
            /\ AtKickoff(players', ball')]_vars

\* the second player has joined a match whose first player had practised
C4_Witness ==
  /\ phase = "countdown"
  /\ Len(players) = 2
  /\ EventsOf(events, "playerJoined") # {}
  /\ tickCounter > 0
\* the tick of the playing phase at which the clock reaches zero
ClockRunsOut == TickStep /\ phase = "playing" /\ timeRemaining > 0 /\ timeRemaining' = 0

HigherTeam == IF scores[1] > scores[2] THEN 1 ELSE 2

ClockEndsMatch ==
  /\ phase' = "finished"
  /\ EventsOf(events', "gameOver") # {}
  /\ \A i \in EventsOf(events', "gameOver") : events'[i].winnerTeam = HigherTeam

\* C5 as stated -- at the tick where the clock of the playing phase reaches
\* zero: on equal scores the phase becomes goldenGoal and no gameOver is
\* broadcast; otherwise the phase becomes finished and gameOver names the
\* team with the higher score
C5_AsStated ==
  [][ClockRunsOut =>
       IF scores[1] = scores[2]
       THEN phase' = "goldenGoal" /\ EventsOf(events', "gameOver") = {}
       ELSE ClockEndsMatch]_vars

\* C5 -- at the tick where the clock of the playing phase reaches zero: on
\* equal scores phaseChanged goldenGoal is broadcast and no gameOver, and the
\* phase is goldenGoal at the end of the tick unless the physics pass of that
\* tick has detected a goal (then goalScored); on unequal scores the phase
\* becomes finished and gameOver names the team with the higher score
C5_ClockExpiry ==
  [][ClockRunsOut =>
       IF scores[1] = scores[2]
       THEN /\ HasEvent(events', EvPhaseChanged("goldenGoal", 0))
            /\ EventsOf(events', "gameOver") = {}
            /\ \/ phase' = "goldenGoal" /\ scores' = scores
               \/ /\ phase' = "goalScored"
                  /\ EventsOf(events', "goalScored") # {}
       ELSE ClockEndsMatch]_vars

\* the clock has run out on a tie and the match is in its golden goal
C5_Witness ==
  /\ phase = "goldenGoal"
  /\ timeRemaining = 0
  /\ scores[1] = scores[2]
  /\ HasEvent(events, EvPhaseChanged("goldenGoal", 0))

\* the tick of goalScored at which the celebration and the freeze are over
CelebrationEnds ==
  /\ TickStep
  /\ phase = "goalScored"
  /\ now' - phaseStartedAt >= GOAL_CELEBRATION + KICKOFF_FREEZE

\* with both players connected, goalScored is left only by such a tick
LeavesCelebrationOnTime ==
  (phase = "goalScored" /\ Len(players') = 2 /\ phase' # "goalScored")
    => CelebrationEnds

ReachedGoalsToWin == scores[1] >= GOALS_TO_WIN \/ scores[2] >= GOALS_TO_WIN

\* C6 as stated -- with both players connected the phase leaves goalScored
\* only at the first tick with now - phaseStartedAt >= GOAL_CELEBRATION +
\* KICKOFF_FREEZE; at that tick the phase becomes finished if a score has
\* reached GOALS_TO_WIN, otherwise players and ball are at kickoff and the
\* phase is playing
C6_AsStated ==
  [][/\ LeavesCelebrationOnTime
     /\ (CelebrationEnds /\ Len(players') = 2) =>
          IF ReachedGoalsToWin THEN phase' = "finished"
          ELSE phase' = "playing" /\ AtKickoff(players', ball')]_vars

\* the match as the kickoff after a celebration leaves it
KickoffState ==
  [MatchState EXCEPT
     !.phase = "playing",
     !.players = [i \in DOMAIN players |->
                    [players[i] EXCEPT
                       !.position = [x |-> 0, y |-> GROUND_Y,
                                     z |-> IF players[i].team = 1 THEN -KICKOFF_Z
                                           ELSE KICKOFF_Z],
                       !.velocity = [x |-> 0, y |-> 0, z |-> 0]]],
     !.ball = [position |-> [x |-> 0, y |-> GROUND_Y, z |-> 0],
               velocity |-> [x |-> 0, y |-> 0, z |-> 0],
               lastTouchedBy |-> Null]]

\* C6 -- with both players connected the phase leaves goalScored only at the
\* first tick with now - phaseStartedAt >= GOAL_CELEBRATION + KICKOFF_FREEZE;
\* at that tick the phase becomes finished if a score has reached
\* GOALS_TO_WIN, otherwise the phase becomes playing, phaseChanged playing is
\* broadcast, and players and ball are what the physics pass of that same
\* tick makes of the kickoff state (at kickoff if it moves nothing)
C6_CelebrationEnds ==
  [][/\ LeavesCelebrationOnTime
     /\ (CelebrationEnds /\ Len(players') = 2) =>
          IF ReachedGoalsToWin THEN phase' = "finished"
          ELSE /\ phase' = "playing"
               /\ phaseStartedAt' = now'
               /\ scores' = scores
               /\ HasEvent(events', EvPhaseChanged("playing", timeRemaining))
               /\ \E m \in MotionSamples \cup {NoMotion} :
                    LET o == physicsTick(KickoffState, now', m)
                    IN players' = o.players /\ ball' = o.ball]_vars

\* play has resumed after the celebration of a goal
C6_Witness ==
  /\ phase = "playing"
  /\ phaseStartedAt = now
  /\ scores # <<0, 0>>
  /\ HasEvent(events, EvPhaseChanged("playing", timeRemaining))

\* C7 -- with both players connected, every tick with now - phaseStartedAt <
\* PRE_GAME_COUNTDOWN leaves the phase at countdown and the first tick with
\* now - phaseStartedAt >= PRE_GAME_COUNTDOWN makes it playing; nothing else
\* ends the countdown
C7_CountdownLength ==
  [][phase = "countdown" =>
       /\ TickStep =>
            IF now' - phaseStartedAt < PRE_GAME_COUNTDOWN
            THEN phase' = "countdown"
            ELSE phase' = "playing"
       /\ (phase' # "countdown" /\ Len(players') = 2) => TickStep]_vars

\* the countdown has just ended: play starts with a full clock
C7_Witness ==
  /\ phase = "playing"
  /\ phaseStartedAt = now
  /\ scores = <<0, 0>>
  /\ timeRemaining = MATCH_TIME_LIMIT
  /\ HasEvent(events, EvPhaseChanged("playing", MATCH_TIME_LIMIT))

\* C8 -- no step lowers a team's score except the reset from waiting to
\* countdown; a step broadcasts at most one goalScored, and if it does
\* exactly one team's score has grown by exactly 1 (the team the event
\* names), and if it does not no score has grown
C8_ScoresCountGoals ==
  [][/\ \A t \in {1, 2} :
          scores'[t] < scores[t] => phase = "waiting" /\ phase' = "countdown"
     /\ Cardinality(EventsOf(events', "goalScored")) <= 1
     /\ IF EventsOf(events', "goalScored") # {}
        THEN \E t \in {1, 2} :
               /\ scores' = [scores EXCEPT ![t] = @ + 1]
               /\ \A i \in EventsOf(events', "goalScored") :
                    events'[i].teamScored = t /\ events'[i].scores = scores'
        ELSE \A t \in {1, 2} : scores'[t] <= scores[t]]_vars

\* a goal has just been credited in a match that had one already
C8_Witness ==
  /\ EventsOf(events, "goalScored") # {}
  /\ scores[1] + scores[2] > 1

\* C9 -- the player map never holds more than MAX_PLAYERS players, however
\* createConnState, onConnect and onDisconnect of the attempts interleave
C9_PlayerCap == Len(players) <= MAX_PLAYERS

\* an attempt that passed createConnState has been closed by onConnect
C9_Witness ==
  /\ Len(players) = MAX_PLAYERS
  /\ \E c \in Conns : conn[c].stage = "closed"

\* the ball at (0.5, y, 10.4)
GoalMouthPoint == [x |-> 5, y |-> GROUND_Y, z |-> 104]

\* a tick of the playing phase, its clock not run out, with the ball there
\* when goals are detected
BallInPlusZGoal ==
  /\ TickStep
  /\ phase = "playing"
  /\ timeRemaining' > 0
  /\ ball'.position = GoalMouthPoint

\* C10 as stated -- with the ball at (0.5, y, 10.4) at goal detection during
\* playing, the goal is credited to the team defending the +Z end (team 2,
\* whose kickoff spot is at z = +7), its score grows by one and the phase
\* becomes goalScored
C10_AsStated ==
  [][BallInPlusZGoal =>
       /\ scores' = [scores EXCEPT ![2] = @ + 1]
       /\ phase' = "goalScored"]_vars

\* C10 -- with the ball at (0.5, y, 10.4) at goal detection during playing,
\* the goal is credited to team 1, the team defending the opposite (-Z) end,
\* its score grows by exactly one and the phase becomes goalScored
C10_PlusZGoalCreditsTeam1 ==
  [][BallInPlusZGoal =>
       /\ scores' = [scores EXCEPT ![1] = @ + 1]
       /\ phase' = "goalScored"
       /\ \E i \in EventsOf(events', "goalScored") : events'[i].teamScored = 1]_vars

\* the ball lies in the +Z goal and the goal has just been credited
C10_Witness ==
  /\ phase = "goalScored"
  /\ timeRemaining > 0
  /\ phaseStartedAt = now
  /\ ball.position = GoalMouthPoint
  /\ EventsOf(events, "goalScored") # {}
\* the goal half-width of the physics pass this tick runs: widened in
\* goldenGoal, also when the clock has run out on a tie in this very tick
PassGoalHalfWidth ==
  IF phase = "goldenGoal" \/ (phase = "playing" /\ timeRemaining' = 0)
  THEN GOLDEN_GOAL_HALF_WIDTH
  ELSE GOAL_HALF_WIDTH

\* C11 -- a goal is credited in a tick only if, after boundary resolution,
\* the ball's |x| is below the active goal half-width and its |z| exceeds
\* FIELD_HALF_LENGTH + BALL_RADIUS; a goal at the +Z end is credited to
\* team 1 (which defends -Z) and a goal at the -Z end to team 2
C11_GoalDetection ==
  [][EventsOf(events', "goalScored") # {} =>
       LET b == ball'.position
           team == IF b.z > 0 THEN 1 ELSE 2
       IN /\ TickStep
          /\ Abs(b.x) < PassGoalHalfWidth
          /\ Abs(b.z) > FIELD_HALF_LENGTH + BALL_RADIUS
          /\ scores' = [scores EXCEPT ![team] = @ + 1]
          /\ \A i \in EventsOf(events', "goalScored") :
               events'[i].teamScored = team]_vars

\* a goal credited through the widened mouth of goldenGoal
C11_Witness ==
  /\ EventsOf(events, "goalScored") # {}
  /\ Abs(ball.position.x) >= GOAL_HALF_WIDTH
  /\ ball.position.z > FIELD_HALF_LENGTH + BALL_RADIUS
  /\ scores[1] = scores[2] + 1

\* a tick at which the physics pass activates a dash of connection c
Activates(c) ==
  /\ TickStep
  /\ conn'[c].stage = conn[c].stage
  /\ conn'[c].cs.dashStartedAt # conn[c].cs.dashStartedAt

\* C12 -- a dash request accepted by sendInput before the cooldown has
\* elapsed never causes an activation: whenever a dash is activated, the last
\* call sendInput accepted (at lastInputAt) came when the cooldown had elapsed
C12_EarlyDashDropped ==
  [][\A c \in Conns :
       Activates(c) => conn[c].cs.lastInputAt >= conn[c].cs.dashCooldownUntil]_vars

\* C13 -- two successive dash activations of a connection (updates of
\* dashStartedAt, each to the time of its tick) are at least DASH_COOLDOWN
\* apart
C13_DashCooldown ==
  [][\A c \in Conns :
       Activates(c) =>
         /\ conn'[c].cs.dashStartedAt = now'
         /\ \/ conn[c].cs.dashStartedAt = 0
            \/ now' - conn[c].cs.dashStartedAt >= DASH_COOLDOWN]_vars

\* a second activation: the request was accepted DASH_COOLDOWN ago, and the
\* ticks in between did not honour it
C13_Witness ==
  \E c \in Conns :
    /\ conn[c].stage = "open"
    /\ conn[c].cs.dashStartedAt = now
    /\ conn[c].cs.lastInputAt + DASH_COOLDOWN = now

\* C14 -- the multiplier a pass computes for a connection is DASH_FORCE_MULT
\* exactly when now - dashStartedAt < DASH_DURATION for its last activation
\* (that of this pass included), and 1.0 otherwise
C14_DashMultiplier ==
  [][TickStep =>
       \A c \in Conns :
         /\ (HasPlayer(players', PlayerId(c)) /\ PhysicsActive(phase'))
              => forceMult'[c] # 0
         /\ forceMult'[c] # 0 =>
              forceMult'[c] = IF now' - conn'[c].cs.dashStartedAt < DASH_DURATION
                              THEN DASH_FORCE_MULT
                              ELSE FORCE_UNIT]_vars

\* a pass exactly DASH_DURATION after an activation: the dash is over
C14_Witness ==
  \E c \in Conns :
    /\ forceMult[c] = FORCE_UNIT
    /\ now - conn[c].cs.dashStartedAt = DASH_DURATION

\* C15 -- an activation needs the buffered dash flag and clears it, and only
\* an accepted sendInput sets the flag: a request causes one activation at
\* most, and none follows when the cooldown expires
C15_DashConsumed ==
  [][\A c \in Conns :
       /\ Activates(c) => conn[c].cs.input.dash /\ ~conn'[c].cs.input.dash
       /\ (~conn[c].cs.input.dash /\ conn'[c].cs.input.dash) =>
            inputs' = inputs + 1 /\ conn'[c].cs.lastInputAt = now]_vars

\* a pass has run after the cooldown expired and has not dashed again
C15_Witness ==
  \E c \in Conns :
    /\ conn[c].cs.dashStartedAt # 0
    /\ now >= conn[c].cs.dashCooldownUntil
    /\ forceMult[c] = FORCE_UNIT
    /\ ~conn[c].cs.input.dash

BufferedTargetInRange ==
  \A c \in Conns :
    /\ Abs(conn[c].cs.input.tx) <= FIELD_HALF_WIDTH + GOAL_DEPTH + INPUT_MARGIN
    /\ Abs(conn[c].cs.input.tz) <= FIELD_HALF_LENGTH + GOAL_DEPTH + INPUT_MARGIN

\* C16 -- the buffered target of every connection is within
\* FIELD_HALF_WIDTH + GOAL_DEPTH + 5 in x and FIELD_HALF_LENGTH + GOAL_DEPTH
\* + 5 in z, and a sendInput with a non-finite coordinate returns leaving
\* the buffered tx, tz, active and dash as they were
C16_InputValidated ==
  /\ []BufferedTargetInRange
  /\ [][\A c \in Conns, inp \in InputSamples :
          (SendInput(c, inp) /\ ~inp.finite) =>
            conn'[c].cs.input = conn[c].cs.input]_vars

\* an out-of-range target has been clamped on both axes
C16_Witness ==
  \E c \in Conns :
    /\ conn[c].cs.input.tx = FIELD_HALF_WIDTH + GOAL_DEPTH + INPUT_MARGIN
    /\ conn[c].cs.input.tz = -(FIELD_HALF_LENGTH + GOAL_DEPTH + INPUT_MARGIN)

\* C17 -- a sendInput that is accepted comes at least 30 ms after the
\* connection's previous accepted one (lastInputAt), and becomes the new
\* lastInputAt
C17_InputRateLimit ==
  [][inputs' # inputs =>
       \E c \in Conns :
         /\ conn[c].stage = "open"
         /\ conn'[c].cs.lastInputAt = now
         /\ now - conn[c].cs.lastInputAt >= MIN_INPUT_INTERVAL
         /\ \A o \in Conns \ {c} : conn'[o] = conn[o]]_vars

\* a second call has been accepted
C17_Witness ==
  /\ inputs = 2
  /\ \E c \in Conns : conn[c].cs.lastInputAt = now /\ now > T0

\* C18 -- two consecutive physicsSnapshot broadcasts are at least
\* SNAPSHOT_BROADCAST_INTERVAL apart: a tick that follows a tick that
\* broadcast one (at lastTickTime) broadcasts one only 50 ms later or more
C18_SnapshotCadence ==
  [][(/\ TickStep
      /\ EventsOf(events, "physicsSnapshot") # {}
      /\ EventsOf(events', "physicsSnapshot") # {})
       => now' - lastTickTime >= SNAPSHOT_BROADCAST_INTERVAL]_vars

\* C19 -- a tick at which the player map is empty broadcasts no
\* physicsSnapshot
C19_NoSnapshotWhenEmpty ==
  [][(TickStep /\ Len(players') = 0)
       => EventsOf(events', "physicsSnapshot") = {}]_vars

\* the loop has run a snapshot-due iteration on an empty waiting match
C19_Witness ==
  /\ Len(players) = 0
  /\ phase = "waiting"
  /\ runState = "sleeping"
  /\ lastTickTime = now
  /\ tickCounter > 0
  /\ events = <<>>
FinishedLoopKeepsRunning ==
  [][(LoopTurn /\ phase = "finished" /\ LiveConns # {})
       => runState' = "sleeping"]_vars

\* the steps of LoopTurn are the steps of Tick
LoopTurnIsTick == [][LoopTurn <=> (\E d \in Steps \cup {0} : Tick(d))]_vars
\* an iteration of the loop, whatever the time slept
Iteration ==
  /\ runState \in {"first", "sleeping"}
  /\ runState' \in {"sleeping", "exited"}
  /\ lastTickTime' = now'
  /\ runState = "first" \/ now' > now

\* C21 -- a tick that sees a connection restarts the idle window and never
\* exits; a tick that sees none opens the window if none is open, and in a
\* phase other than finished it exits exactly when more than EMPTY_TIMEOUT
\* has passed since the tick that opened the window
C21_IdleExit ==
  [][Iteration =>
       IF LiveConns # {}
       THEN emptyAt' = 0 /\ runState' = "sleeping"
       ELSE /\ emptyAt' = (IF emptyAt = 0 THEN now' ELSE emptyAt)
            /\ phase # "finished" =>
                 (runState' = "exited" <=> now' - emptyAt' > EMPTY_TIMEOUT)]_vars

\* the loop has exited for idleness, the window opened after a player left
C21_Witness ==
  /\ runState = "exited"
  /\ phase = "waiting"
  /\ emptyAt > T0
  /\ now - emptyAt > EMPTY_TIMEOUT
  /\ \E c \in Conns : conn[c].stage = "gone"

\* C22 -- after the tick loop has exited nothing is broadcast: no
\* physicsSnapshot, playerJoined, playerLeft, phaseChanged, goalScored or
\* gameOver, whatever connects or disconnects afterwards
C22_SilentAfterExit == runState = "exited" => events = <<>>
\* the entities of the match with their radius
Entities ==
  {[body |-> players[i], radius |-> MARBLE_RADIUS,
    restitution |-> WALL_RESTITUTION_PLAYER] : i \in DOMAIN players}
    \cup {[body |-> ball, radius |-> BALL_RADIUS, restitution |-> WALL_RESTITUTION_BALL]}

InsidePlayVolume(e) ==
  /\ Abs(e.body.position.x) <= FIELD_HALF_WIDTH - e.radius
  /\ Abs(e.body.position.z) <= FIELD_HALF_LENGTH + GOAL_DEPTH - e.radius

\* C23 -- after every boundary-resolution pass every player and the ball
\* has |x| <= FIELD_HALF_WIDTH - radius and |z| <= FIELD_HALF_LENGTH +
\* GOAL_DEPTH - radius, wherever it was before and in either goal width
C23_InsidePlayVolume ==
  [][WallPass => (\A e \in Entities : InsidePlayVolume(e))']_vars

\* a ball that was beyond the back wall of a pocket now rests against it
C23_Witness ==
  /\ ball.position.z = FIELD_HALF_LENGTH + GOAL_DEPTH - BALL_RADIUS
  /\ ball.velocity.z < 0
  /\ ball.velocity \notin WallVelocities
  /\ Abs(ball.position.x) < GOAL_HALF_WIDTH
  /\ players[1].position = AtRest.position

\* C24 -- wallBounce applied to the result of wallBounce, with the same
\* radius, restitution and goal half-width, changes neither position nor
\* velocity
C24_WallBounceIdempotent ==
  [][WallPass =>
       \A e \in Entities' :
         wallBounce(e.body, e.radius, e.restitution, GoalHalfWidth(phase)) = e.body]_vars

\* a player that was in a corner of the field: both walls have acted
C24_Witness ==
  /\ players[1].position.x = FIELD_HALF_WIDTH - MARBLE_RADIUS
  /\ players[1].position.z = FIELD_HALF_LENGTH - MARBLE_RADIUS
  /\ players[1].velocity.x < 0
  /\ players[1].velocity.z < 0
  /\ players[1].velocity \notin WallVelocities

MinDist(pr) ==
  IF pr.kind = "players" THEN 2 * MARBLE_RADIUS * FINE
  ELSE (MARBLE_RADIUS + BALL_RADIUS) * FINE

Overlapping(pr) == DistSq(pr.a, pr.b) < MinDist(pr) * MinDist(pr)

\* apart by the sum of the radii less a hundredth of it
Separated(pr) ==
  LET least == MinDist(pr) - MinDist(pr) \div 100
  IN DistSq(pr.a, pr.b) >= least * least

CollisionStep == pair.kind # "none" /\ ~pair.done /\ pair'.done

\* C25 -- two entities (two players, or the ball and a player) whose
\* centres are closer than the sum of their radii before the pair's
\* collision step are at least the sum of the radii, less a small epsilon,
\* apart after it
C25_SeparatedAfterCollision ==
  [][(CollisionStep /\ Overlapping(pair)) => Separated(pair')]_vars

\* what the code does: the same, for pairs whose centres do not coincide
SeparatedUnlessCoincident ==
  [][(CollisionStep /\ Overlapping(pair) /\ DistSq(pair.a, pair.b) >= 1)
       => Separated(pair')]_vars

\* two players on the same spot: the step has run and they still are
CoincidentAfterStep ==
  pair.kind = "players" /\ pair.done /\ DistSq(pair.a, pair.b) = 0

\* the velocity a body gained in the step, and the closing speed before it
Gain(before, after) ==
  [x |-> after.velocity.x - before.velocity.x, z |-> after.velocity.z - before.velocity.z]

Closing(pr) ==
  (pr.a.velocity.x - pr.b.velocity.x) * (pr.b.position.x - pr.a.position.x)
    + (pr.a.velocity.z - pr.b.velocity.z) * (pr.b.position.z - pr.a.position.z) > 0

\* C26 -- in a ball-player contact with closing velocity along the normal,
\* the ball's velocity gain is 1/BALL_MASS times the player's loss
\* (BALL_MASS * gain of the ball + 1.0 * gain of the player = 0), so the
\* mass-weighted momentum is conserved and the ball's gain is the larger;
\* with no closing velocity neither velocity changes
C26_ImpulseByMassRatio ==
  [][(CollisionStep /\ pair.kind = "ballPlayer" /\ Overlapping(pair)) =>
       LET gP == Gain(pair.a, pair'.a)
           gB == Gain(pair.b, pair'.b)
       IN IF Closing(pair)
          THEN /\ BALL_MASS * gB.x + PLAYER_MASS * gP.x = 0
               /\ BALL_MASS * gB.z + PLAYER_MASS * gP.z = 0
               /\ gB.x * gB.x + gB.z * gB.z > gP.x * gP.x + gP.z * gP.z
          ELSE gP = [x |-> 0, z |-> 0] /\ gB = [x |-> 0, z |-> 0]]_vars

\* a closing contact along a 3-4-5 normal: with the player at (325, 650)
\* and the ball at rest the ball leaves with (660, 880), the player keeps
\* (127, 386)
C26_Witness ==
  /\ pair.kind = "ballPlayer"
  /\ pair.done
  /\ pair.b.velocity = FineV(660, 880)
  /\ pair.a.velocity = FineV(127, 386)

\* C27 -- a connection attempted while MAX_PLAYERS players are present is
\* refused by createConnState with the error "Room is full"; it adds no
\* player, leaves phase, scores, clock and ball alone and broadcasts
\* nothing; and a later step of a connection that was not admitted (one
\* closed by onConnect, when it disconnects) changes nothing either
C27_FullRoomRefuses ==
  [][\A c \in Conns :
       /\ (conn[c].stage = "none" /\ conn'[c].stage # "none" /\ Len(players) >= MAX_PLAYERS)
            => /\ conn'[c].stage = "refused"
               /\ result' = Raised("Room is full")
               /\ UNCHANGED state
               /\ events' = <<>>
       /\ (conn[c].stage \in {"refused", "closed"} /\ conn'[c] # conn[c])
            => /\ conn'[c].stage = "gone"
               /\ result' = Void
               /\ UNCHANGED state
               /\ events' = <<>>
       /\ conn'[c].stage = "closed" /\ conn[c].stage # "closed"
            => UNCHANGED state /\ events' = <<>>]_vars

\* the third connection was refused while the two players were in the room
C27_Witness ==
  /\ conn[3].stage = "refused"
  /\ result = Raised("Room is full")
  /\ Len(players) = MAX_PLAYERS
  /\ phase # "waiting"

\* the live match state as a client sees it (GameState without id and name)
LiveState ==
  [players |-> players, ball |-> ball, scores |-> <<scores[1], scores[2]>>,
   phase |-> phase, timeRemaining |-> timeRemaining,
   phaseStartedAt |-> phaseStartedAt, maxPlayers |-> MAX_PLAYERS,
   createdAt |-> CreatedAt]

JoinStateCall(c) == conn[c].stage = "open" /\ result'.kind = "joinState" /\ result' # result

LoopCanTurn ==
  runState \in {"first", "sleeping"} /\ (runState = "first" \/ advances < MaxAdvances)

\* C29 -- a lobby notification that fails, is delayed or is lost raises no
\* error out of onConnect, onDisconnect or the tick (the only error a
\* handler raises is "Room is full"), never keeps the loop from its next
\* iteration, and changes nothing in the match: a change of the lobby alone
\* leaves players, phase, scores, clock, connections and events as they
\* were, and with the lobby down or unanswering a connect still admits the
\* player, a disconnect still removes it and a finishing tick still finishes
C29_LobbyFailureIgnored ==
  /\ [](result.kind = "error" => result = Raised("Room is full"))
  /\ [](LoopCanTurn => ENABLED (\E d \in Steps \cup {0} : Tick(d)))
  /\ [][/\ lobby' # lobby => UNCHANGED <<state, conn, loop, events, result>>
        /\ \A c \in Conns :
             /\ (conn[c].stage = "created" /\ conn'[c].stage = "open")
                  => HasPlayer(players', PlayerId(c)) /\ result' = Void
             /\ (conn[c].stage = "open" /\ conn'[c].stage = "gone")
                  => ~HasPlayer(players', PlayerId(c)) /\ result' = Void
        /\ (runState' = "exited" /\ runState # "exited") => result' = Void
        /\ (phase' = "finished" /\ phase # "finished") => result' = Void]_vars

\* a match that was forfeited while the lobby was down, and whose loop has
\* iterated since
C29_Witness ==
  /\ lobby = "down"
  /\ phase = "finished"
  /\ conn[2].stage = "gone"
  /\ Len(players) = 1
  /\ runState = "sleeping"
  /\ lastTickTime = now
  /\ events = <<>>

\* the phase the lifecycle step of the iteration now beginning leaves
PhaseAfterLifecycle ==
  phaseTick(MatchState, now', Min(now' - lastTickTime, MAX_DT_MS)).phase

\* C30 -- in a tick whose phase after the lifecycle step is countdown,
\* goalScored or finished there is no physics pass: every player and the
\* ball keep position and velocity, the ball keeps its last toucher and
\* every connection keeps its dash state and buffered input
C30_NoPhysicsOutsidePlay ==
  [][(TickStep /\ PhaseAfterLifecycle \in {"countdown", "goalScored", "finished"})
       => /\ players' = players
          /\ ball' = ball
          /\ conn' = conn
          /\ phase' = PhaseAfterLifecycle]_vars

\* a tick during the celebration: the ball that scored is still moving
\* and has not moved
C30_Witness ==
  /\ phase = "goalScored"
  /\ runState = "sleeping"
  /\ lastTickTime = now
  /\ now > phaseStartedAt
  /\ ball.velocity # vec3Zero
  /\ events = <<>>

\* C31 -- while the phase is waiting no goal is detected: whatever the
\* ball does in a tick, a goal pocket entered included, the scores stay
\* 0-0, the phase stays waiting unless a second player joins, and no
\* goalScored event is broadcast
C31_NoGoalWhileWaiting ==
  /\ [](phase = "waiting" => scores = <<0, 0>>)
  /\ [][(phase = "waiting" /\ TickStep) =>
          /\ phase' = "waiting"
          /\ scores' = scores
          /\ EventsOf(events', "goalScored") = {}]_vars

\* the ball of a player practising alone lies behind a goal line, inside
\* the goal mouth
C31_Witness ==
  /\ phase = "waiting"
  /\ Len(players) = 1
  /\ Abs(ball.position.z) > FIELD_HALF_LENGTH
  /\ Abs(ball.position.x) < GOAL_HALF_WIDTH
  /\ scores = <<0, 0>>

\* C32 -- a tick that starts in playing takes from timeRemaining the time
\* elapsed since the previous tick started, at most MAX_DT_MS, and stops
\* at 0; a tick that starts in any other phase leaves timeRemaining alone;
\* and 0 <= timeRemaining <= MATCH_TIME_LIMIT in every state
C32_ClockDecrement ==
  /\ [](0 <= timeRemaining /\ timeRemaining <= MATCH_TIME_LIMIT)
  /\ [][TickStep =>
          timeRemaining' =
            IF phase = "playing"
            THEN Max(0, timeRemaining - Min(now' - lastTickTime, MAX_DT_MS))
            ELSE timeRemaining]_vars

\* a clock that has lost an uncapped 20 ms and then a capped 50 ms
C32_Witness ==
  /\ phase = "playing"
  /\ timeRemaining = 30
  /\ now = LateNow + 120

\* the match as the lifecycle step of the iteration now beginning leaves it
AfterLifecycle == phaseTick(MatchState, now', Min(now' - lastTickTime, MAX_DT_MS))

\* a step that puts the ball back on the kickoff spot
Kickoff == ball' = createBall /\ phase' # phase

\* C33 -- every ball-player contact that step 3 resolves makes that player
\* the ball's lastTouchedBy, closing or not; the scorerId of a goalScored
\* event is the lastTouchedBy the pass has left, which changes to a player
\* only in a physics pass with that player present and to null only at a
\* kickoff, and every kickoff (match start, end of a celebration) gives the
\* ball no last toucher
C33_LastToucherScores ==
  [][/\ (CollisionStep /\ pair.kind = "ballPlayer")
          => pair'.b.lastTouchedBy =
               IF Overlapping(pair) /\ DistSq(pair.a, pair.b) >= 1
               THEN pair.a.id ELSE pair.b.lastTouchedBy
     /\ TickStep
          => \A i \in EventsOf(events', "goalScored") :
               events'[i].scorerId = ball'.lastTouchedBy
     /\ ball'.lastTouchedBy # ball.lastTouchedBy
          => IF ball'.lastTouchedBy = Null THEN Kickoff
             ELSE /\ TickStep
                  /\ PhysicsActive(AfterLifecycle.phase)
                  /\ HasPlayer(players', ball'.lastTouchedBy)
     /\ (phase = "waiting" /\ phase' = "countdown") => ball'.lastTouchedBy = Null
     /\ (TickStep /\ phase = "goalScored" /\ AfterLifecycle.phase = "playing")
          => AfterLifecycle.ball = createBall]_vars

\* a player backing away from a resting ball it overlaps has been made its
\* last toucher; neither velocity has changed
C33_Witness ==
  /\ pair.kind = "ballPlayer"
  /\ pair.done
  /\ pair.b.lastTouchedBy = PlayerId(1)
  /\ pair.a.velocity = FineV(-325, 0)
  /\ pair.b.velocity = FineV(0, 0)
  /\ pair.b.position.x - pair.a.position.x = (MARBLE_RADIUS + BALL_RADIUS) * FINE

Teams(ps) == {ps[i].team : i \in DOMAIN ps}

\* C34 -- whenever the phase is countdown, playing, goalScored or
\* goldenGoal exactly two players are present, one of team 1 and one of
\* team 2
C34_MatchHasBothTeams ==
  phase \in {"countdown", "playing", "goalScored", "goldenGoal"}
    => Len(players) = 2 /\ Teams(players) = {1, 2}

\* a match in its celebration, with a third client turned away by onConnect
C34_Witness ==
  /\ phase = "goalScored"
  /\ Len(players) = 2
  /\ conn[3].stage = "closed"
  /\ scores # <<0, 0>>

\* C35 -- whenever two players are present, in any phase, finished
\* included, one is on team 1 and the other on team 2
C35_TwoPlayersTwoTeams == Len(players) = 2 => Teams(players) = {1, 2}

\* C36 -- gameOver is broadcast once per match: a step enters finished
\* (by the goal limit, by the clock, by a disconnect) exactly when it
\* broadcasts gameOver, it broadcasts one, phaseChanged(finished) comes
\* right after it, and finished is never left
C36_GameOverOnce ==
  [][LET overs == EventsOf(events', "gameOver") IN
     /\ (phase # "finished" /\ phase' = "finished") <=> overs # {}
     /\ overs # {} =>
          /\ Cardinality(overs) = 1
          /\ \A i \in overs :
               /\ i + 1 \in DOMAIN events'
               /\ events'[i + 1] = EvPhaseChanged("finished", timeRemaining')
     /\ phase = "finished" => phase' = "finished"]_vars

\* a match ended by its clock: gameOver, then phaseChanged(finished), with
\* both players still present
C36_Witness ==
  /\ phase = "finished"
  /\ Len(players) = 2
  /\ timeRemaining = 0
  /\ Len(events) = 2
  /\ events[1].type = "gameOver"
  /\ events[2] = EvPhaseChanged("finished", 0)

\* C37 -- in every gameOver a tick broadcasts (the goal limit, the clock)
\* winnerTeam is the team whose score is strictly the higher at that
\* moment and winnerId is the connected player of that team; and no score
\* ever exceeds GOALS_TO_WIN
C37_WinnerHasHigherScore ==
  /\ [](scores[1] <= GOALS_TO_WIN /\ scores[2] <= GOALS_TO_WIN)
  /\ [][TickStep =>
          \A i \in EventsOf(events', "gameOver") :
            LET e == events'[i]
                w == e.winnerTeam
            IN /\ w \in {1, 2}
               /\ scores'[w] > scores'[3 - w]
               /\ e.scores = scores'
               /\ HasPlayer(players', e.winnerId)
               /\ TeamOf(players', e.winnerId) = w
               /\ \E c \in Conns : conn'[c].stage = "open" /\ PlayerId(c) = e.winnerId]_vars

\* team 2 has won by reaching the goal limit
C37_Witness ==
  /\ phase = "finished"
  /\ scores[2] = GOALS_TO_WIN
  /\ EventsOf(events, "gameOver") # {}
  /\ \A i \in EventsOf(events, "gameOver") : events[i].winnerTeam = 2
  /\ EventsOf(events, "playerLeft") = {}

\* C38 -- with the loop scheduled fairly and time passing between its
\* iterations, a match in playing with time on its clock reaches
\* goldenGoal or finished: goals, celebrations and input do not hold the
\* clock above zero for ever
C38_PlayingEnds ==
  (phase = "playing" /\ timeRemaining > 0) ~> (phase \in {"goldenGoal", "finished"})

\* the clock has run out after a goal and its celebration: the match has
\* ended on the score, with both players present
C38_Witness ==
  /\ phase = "finished"
  /\ timeRemaining = 0
  /\ scores = <<0, 1>>
  /\ Len(players) = 2

\* C39 -- after wallBounce an entity whose |z| exceeds FIELD_HALF_LENGTH -
\* radius has |x| < goalHW - radius: at or beyond an end wall it is
\* strictly inside the goal mouth or pocket, clear of the end wall, the
\* posts and the pocket's side walls
C39_InsideMouthBeyondEndWall ==
  [][WallPass =>
       \A e \in Entities' :
         Abs(e.body.position.z) > FIELD_HALF_LENGTH - e.radius
           => Abs(e.body.position.x) < GoalHalfWidth(phase) - e.radius]_vars

\* a player deep in a widened pocket, off its back wall: beyond the end
\* wall and clear of the pocket's side walls
C39_Witness ==
  /\ phase = "goldenGoal"
  /\ Abs(players[1].position.z) = FIELD_HALF_LENGTH + GOAL_DEPTH - MARBLE_RADIUS
  /\ Abs(players[1].position.x) > GOAL_HALF_WIDTH - MARBLE_RADIUS
  /\ Abs(players[1].position.x) < GOLDEN_GOAL_HALF_WIDTH - MARBLE_RADIUS
  /\ players[1].velocity \notin WallVelocities

\* C40 -- whenever every call the match has made to the lobby has been
\* served, the lobby does not list the room of a finished match with
\* status waiting
C40_FinishedRoomNotListedWaiting ==
  (directory.kind = "lobby" /\ directory.flight = <<>> /\ phase = "finished")
    => ~(directory.room.listed /\ directory.room.status = "waiting")

\* what the code keeps: a room whose match is under way is never joinable
\* once the calls have been served
PlayingRoomNotJoinable ==
  (directory.kind = "lobby" /\ directory.flight = <<>>
     /\ phase \in {"countdown", "playing", "goalScored", "goldenGoal"})
    => ~Joinable(directory.room)

====
